---- MODULE Spec2Model ----
(***************************************************************************)
(* Model of the reasoning strategies of TheAgent (agents/react_agent.py,   *)
(* agents/cot_agent.py, agents/tot_agent.py), of the decision parsing each *)
(* of them does on generated text, and of infra/tool_registry.py.          *)
(*                                                                         *)
(* Text is a sequence of tokens.  A token stands for a run of characters:  *)
(*   "_"    whitespace                 "<fence>" a code fence marker          *)
(*   "json" the four letters json      "w"    a prose word                 *)
(*   "{" "}" braces                                                        *)
(*   "nt=true", "tn=web_search", ...  one  "key": value  member of a JSON  *)
(*   object with its separator; "pm=" is the key "parameters" whose value  *)
(*   is the object that follows; "q=..." is a member of that object.       *)
(***************************************************************************)
EXTENDS Integers, Sequences, FiniteSets, TLC

VARIABLES
    ptext,      \* parser development: the generated text handed to the parsers
    pdone,      \* parser development: TRUE once the parsers have run
    pout,       \* parser development: what each strategy's parser returned
    tools,      \* ToolRegistry._tools: registered name -> tool instance
    rlast,      \* registry development: how the last registry call ended
    agent,      \* which strategy runs: "react", "cot", "tot" ("none": no run)
    maxSteps,   \* ReActAgent.max_steps
    pc,         \* position of the run
    step,       \* ReActAgent.run: the loop variable step
    history,    \* ReActAgent.run: the transcript
    action,     \* the decision dict returned by the decision step
    observation,\* the observation of the last ACT, [some, v]
    calls,      \* the external calls made so far, in order: [kind, text]
    invocations,\* the Registry invocations made so far: [name, kwargs]
    synthPrompt,\* the prompt of the synthesis generation call
    result,     \* how run ended: [status, value]
    numThoughts,\* CoTAgent.num_thoughts
    chain,      \* CoTAgent.run: thought_chain
    numBranches,\* TreeOfThoughtsAgent.num_branches
    maxDepth,   \* TreeOfThoughtsAgent.max_depth
    nodes,      \* the reasoning tree: the TreeNodes in creation order
    stack,      \* the active calls of _build_tree: [node, todo]
    cursor,     \* the node whose branches are generated next
    evaluated,  \* _evaluate_paths: the evaluated paths
    best,       \* run: best_path
    provider,   \* the mocked model: the text it returns for each prompt asked so far
    capability, \* the registry's tools: the observation each invocation made so far gave
    earlier,    \* the outcome of the earlier run of the same agent, [some, ...]
    other,      \* the locals of the other call of run on the same agent
    request,    \* chat service: the ChatRequest being served
    parameters, \* BaseTool.parameters: the declared ToolParameters, in order
    kwargsIn,   \* BaseTool.safe_execute: the keyword arguments of the call (**kwargs)
    executed,   \* the calls of BaseTool.execute made so far: the arguments of each
    outcome,    \* how safe_execute ended: [status, value]
    max_retries,\* OllamaModel._max_retries
    genArgs,    \* OllamaModel.generate: [prompt, temperature]
    posts,      \* the POST attempts made so far: how each ended
    generated,  \* how OllamaModel.generate ended: [status, value]
    session_id, \* MemoryEnabledScheduler.session_id
    memory,     \* the rows of the conversations table, in insertion order
    explicit,   \* PreferenceEngine.preferences['explicit']: <<category, key>> -> value
    ran,        \* how the last MemoryEnabledScheduler.run ended: [status, value]
    runs        \* the number of calls of MemoryEnabledScheduler.run so far

pvars == <<ptext, pdone, pout>>
rvars == <<tools, rlast>>
avars == <<agent, maxSteps, pc, step, history, action, observation, calls,
           invocations, synthPrompt, result>>

cvars == <<numThoughts, chain>>
tvars == <<numBranches, maxDepth, nodes, stack, cursor, evaluated, best>>
dvars == <<provider, capability, earlier, other>>
mvars == <<session_id, memory, explicit, ran, runs>>
svars == <<request, parameters, kwargsIn, executed, outcome, max_retries, genArgs, posts,
           generated, mvars>>

vars == <<ptext, pdone, pout, tools, rlast, agent, maxSteps, pc, step, history,
          action, observation, calls, invocations, synthPrompt, result,
          numThoughts, chain, numBranches, maxDepth, nodes, stack, cursor,
          evaluated, best, provider, capability, earlier, other, request, parameters,
          kwargsIn, executed, outcome, max_retries, genArgs, posts, generated,
          session_id, memory, explicit, ran, runs>>

-----------------------------------------------------------------------------
(* Generic text helpers (Python str methods at token granularity).          *)

WS == "_"
FENCE == "<fence>"   \* the three-backquote marker

SubSeqFrom(s, i) == SubSeq(s, i, Len(s))

RECURSIVE LStrip(_)
LStrip(s) == IF s # <<>> /\ Head(s) = WS THEN LStrip(Tail(s)) ELSE s

RECURSIVE RStrip(_)
RStrip(s) ==
    IF s # <<>> /\ s[Len(s)] = WS THEN RStrip(SubSeq(s, 1, Len(s) - 1)) ELSE s

\* str.strip()
Strip(s) == RStrip(LStrip(s))

\* x in s, for a marker x that is one token
Has(s, x) == \E i \in 1..Len(s) : s[i] = x

\* str.find(x): first index or 0 when absent (Python -1)
Find(s, x) == IF Has(s, x) THEN CHOOSE i \in 1..Len(s) :
                                    s[i] = x /\ \A j \in 1..(i - 1) : s[j] # x
              ELSE 0

\* str.rfind(x): last index or 0 when absent (Python -1)
RFind(s, x) == IF Has(s, x) THEN CHOOSE i \in 1..Len(s) :
                                    s[i] = x /\ \A j \in (i + 1)..Len(s) : s[j] # x
               ELSE 0

\* str.split(FENCE): the parts between the fence markers, in order
RECURSIVE Split(_)
Split(s) ==
    IF ~Has(s, FENCE) THEN <<s>>
    ELSE LET i == Find(s, FENCE)
         IN  <<SubSeq(s, 1, i - 1)>> \o Split(SubSeqFrom(s, i + 1))

\* The characters "json" inside one token, removed by str.replace("json", "").
\* A token that is exactly "json" disappears; a token holding it keeps the rest.
JsonErased(tok) ==
    CASE tok = "q=json tutorials" -> "q= tutorials"
      [] OTHER -> tok

\* str.replace("json", "")
RECURSIVE ReplaceJson(_)
ReplaceJson(s) ==
    IF s = <<>> THEN <<>>
    ELSE IF Head(s) = "json" THEN ReplaceJson(Tail(s))
    ELSE <<JsonErased(Head(s))>> \o ReplaceJson(Tail(s))

-----------------------------------------------------------------------------
(* json.loads on the span from the first "{" to the last "}".               *)

\* A decoded JSON value: t is its type, s its scalar text, m its members.
Val(t, s, m) == [t |-> t, s |-> s, m |-> m]
Absent == Val("absent", "", {})     \* key not in the dict
Null == Val("null", "", {})         \* None
VTrue == Val("bool", "true", {})
VFalse == Val("bool", "false", {})
VStr(x) == Val("str", x, {})
VMap(m) == Val("map", "", m)

EmptyDict == [needs_tool |-> Absent, tool_name |-> Absent, parameters |-> Absent]

\* The member each scalar member token decodes to: <<key, value>>
ScalarMember(tok) ==
    CASE tok = "nt=true" -> <<"needs_tool", VTrue>>
      [] tok = "nt=false" -> <<"needs_tool", VFalse>>
      [] tok = "nt=yes" -> <<"needs_tool", VStr("yes")>>
      [] tok = "nt=null" -> <<"needs_tool", Null>>
      [] tok = "tn=web_search" -> <<"tool_name", VStr("web_search")>>
      [] tok = "tn=nope" -> <<"tool_name", VStr("nope")>>
      [] tok = "tn=null" -> <<"tool_name", Null>>
      [] tok = "pm=null" -> <<"parameters", Null>>
      [] tok = "pm=str" -> <<"parameters", VStr("str")>>
      [] OTHER -> <<"", Absent>>

IsScalarMember(tok) == ScalarMember(tok)[1] # ""

ArgTokens == {"q=python tutorials", "q=json tutorials", "q= tutorials", "max=5"}

\* The key of a member of the arguments object
ArgKey(tok) ==
    CASE tok = "max=5" -> "max_results"
      [] tok = "name=x" -> "name"
      [] OTHER -> "query"

\* dict[key] = value on the arguments: a repeated key keeps its last value
ArgSet(m, tok) == {x \in m : ArgKey(x) # ArgKey(tok)} \cup {tok}

DictSet(d, k, v) ==
    CASE k = "needs_tool" -> [d EXCEPT !.needs_tool = v]
      [] k = "tool_name" -> [d EXCEPT !.tool_name = v]
      [] k = "parameters" -> [d EXCEPT !.parameters = v]
      [] OTHER -> d

ParseFail == [ok |-> FALSE, d |-> EmptyDict, args |-> {}, next |-> 0]

\* Members of the nested arguments object, from index i up to its "}".
RECURSIVE ParseArgs(_, _, _)
ParseArgs(s, i, m) ==
    IF i > Len(s) THEN ParseFail
    ELSE IF s[i] = WS THEN ParseArgs(s, i + 1, m)
    ELSE IF s[i] = "}" THEN [ok |-> TRUE, d |-> EmptyDict, args |-> m, next |-> i + 1]
    ELSE IF s[i] \in ArgTokens THEN ParseArgs(s, i + 1, ArgSet(m, s[i]))
    ELSE ParseFail

\* Members of the top-level object, from index i up to its "}".  A repeated
\* key keeps its last value.
RECURSIVE ParseMembers(_, _, _)
ParseMembers(s, i, d) ==
    IF i > Len(s) THEN ParseFail
    ELSE IF s[i] = WS THEN ParseMembers(s, i + 1, d)
    ELSE IF s[i] = "}" THEN [ok |-> TRUE, d |-> d, args |-> {}, next |-> i + 1]
    ELSE IF IsScalarMember(s[i])
         THEN ParseMembers(s, i + 1, DictSet(d, ScalarMember(s[i])[1], ScalarMember(s[i])[2]))
    ELSE IF s[i] = "pm="
         THEN LET j == i + 1 + Len(SubSeqFrom(s, i + 1)) - Len(LStrip(SubSeqFrom(s, i + 1)))
              IN  IF j <= Len(s) /\ s[j] = "{"
                  THEN LET a == ParseArgs(s, j + 1, {})
                       IN  IF a.ok
                           THEN ParseMembers(s, a.next, DictSet(d, "parameters", VMap(a.args)))
                           ELSE ParseFail
                  ELSE ParseFail
    ELSE ParseFail

\* json.loads(s): ok is FALSE where it raises JSONDecodeError (a token that is
\* no JSON, an unclosed object, or data after the object).
JsonLoads(s) ==
    IF s = <<>> \/ Head(s) # "{" THEN [ok |-> FALSE, d |-> EmptyDict]
    ELSE LET r == ParseMembers(s, 2, EmptyDict)
         IN  IF r.ok /\ r.next = Len(s) + 1 THEN [ok |-> TRUE, d |-> r.d]
             ELSE [ok |-> FALSE, d |-> EmptyDict]

\* A test that takes every value but None for true
TruthyNotNone(v) == v.t \notin {"absent", "null"}

\* Python truthiness of a decoded value (None for an absent key)
Truthy(v) ==
    CASE v.t = "bool" -> v.s = "true"
      [] v.t = "str" -> v.s # ""
      [] v.t = "map" -> v.m # {}
      [] OTHER -> FALSE

-----------------------------------------------------------------------------
(* The decision parsing of the three strategies.                            *)

NoDecision == [some |-> FALSE, d |-> EmptyDict]

\* The first part of the split that holds both braces, or <<>> with found FALSE
RECURSIVE FirstPartBoth(_)
FirstPartBoth(parts) ==
    IF parts = <<>> THEN [found |-> FALSE, part |-> <<>>]
    ELSE IF Has(Head(parts), "{") /\ Has(Head(parts), "}")
         THEN [found |-> TRUE, part |-> Head(parts)]
    ELSE FirstPartBoth(Tail(parts))

\* The first part of the split that holds an opening brace
RECURSIVE FirstPartOpen(_)
FirstPartOpen(parts) ==
    IF parts = <<>> THEN [found |-> FALSE, part |-> <<>>]
    ELSE IF Has(Head(parts), "{") THEN [found |-> TRUE, part |-> Head(parts)]
    ELSE FirstPartOpen(Tail(parts))

\* react_agent.py 95-104 and cot_agent.py 165-173: strip, then narrow to the
\* first fenced part holding "{" and "}", dropping a leading json tag
CleanResponse(text) ==
    LET r == Strip(text)
    IN  IF Has(r, FENCE)
        THEN LET p == FirstPartBoth(Split(r))
             IN  IF p.found
                 THEN IF p.part # <<>> /\ Head(p.part) = "json"
                      THEN Strip(Tail(p.part))
                      ELSE p.part
                 ELSE r
        ELSE r

\* tot_agent.py 348-354: strip, then narrow to the first part holding "{",
\* with every occurrence of json removed from it
CleanResponseToT(text) ==
    LET r == Strip(text)
    IN  IF Has(r, FENCE)
        THEN LET p == FirstPartOpen(Split(r))
             IN  IF p.found THEN Strip(ReplaceJson(p.part)) ELSE r
        ELSE r

\* response[start:end] of the span test start != -1 and end > start
HasSpan(r) == Find(r, "{") # 0 /\ RFind(r, "}") > Find(r, "{")
Span(r) == SubSeq(r, Find(r, "{"), RFind(r, "}"))

\* A decoding that falls back to a web_search decision when it finds no span
DecodeSpanDefaultSearch(r) ==
    IF HasSpan(r)
    THEN LET j == JsonLoads(Span(r))
         IN  IF j.ok THEN [found |-> TRUE, d |-> j.d] ELSE [found |-> FALSE, d |-> EmptyDict]
    ELSE [found |-> TRUE,
          d |-> [EmptyDict EXCEPT !.needs_tool = VTrue, !.tool_name = VStr("web_search")]]

\* The decoded dict of the cleaned response: found is FALSE when there is no
\* span or json.loads raises (caught by the except of the caller)
DecodeSpan(r) ==
    IF HasSpan(r)
    THEN LET j == JsonLoads(Span(r))
         IN  IF j.ok THEN [found |-> TRUE, d |-> j.d] ELSE [found |-> FALSE, d |-> EmptyDict]
    ELSE [found |-> FALSE, d |-> EmptyDict]

\* A decision that tests the presence of the decoded dict, not needs_tool
DecideActionAnyDict(text) ==
    LET j == DecodeSpan(CleanResponse(text))
    IN  IF j.found THEN [some |-> TRUE, d |-> j.d] ELSE NoDecision

\* ReActAgent._decide_action / CoTAgent._decide_action, after the generation
\* call: the decision dict when needs_tool is truthy, None otherwise
DecideAction(text) ==
    LET j == DecodeSpan(CleanResponse(text))
    IN  IF j.found /\ Truthy(j.d.needs_tool) THEN [some |-> TRUE, d |-> j.d]
        ELSE NoDecision

\* TreeOfThoughtsAgent._execute_if_needed, lines 346-361: the decision dict
\* when needs_tool is truthy
DecideActionToT(text) ==
    LET j == DecodeSpan(CleanResponseToT(text))
    IN  IF j.found /\ Truthy(j.d.needs_tool) THEN [some |-> TRUE, d |-> j.d]
        ELSE NoDecision

-----------------------------------------------------------------------------
(* The registry (infra/tool_registry.py) and the tools (tools/base.py).     *)

\* A call that returned v, and a call that raised exception exc
Returned(v) == [kind |-> "return", v |-> v, exc |-> ""]
Raised(exc) == [kind |-> "raise", v |-> <<>>, exc |-> exc]

\* ToolResult(success, data, error); data is [t, s, items]
ToolResult(success, data, error) ==
    [kind |-> "return", success |-> success, data |-> data, error |-> error, exc |-> ""]
ToolRaised(exc) ==
    [kind |-> "raise", success |-> FALSE, data |-> [t |-> "none", s |-> "", items |-> <<>>],
     error |-> "", exc |-> exc]

DataNone == [t |-> "none", s |-> "", items |-> <<>>]
DataScalar(x) == [t |-> "scalar", s |-> x, items |-> <<>>]
DataList(xs) == [t |-> "list", s |-> "", items |-> xs]

\* What an execute of a tool may do: return a list, an empty list or a scalar
\* with success, return a failure, or raise
ToolBehaviours == {"list", "emptylist", "scalar", "fail", "raise"}

\* BaseTool.execute(**kwargs) of a registered tool: abstract, any outcome
ToolExecute(tool, kwargs, beh) ==
    CASE beh = "list" -> ToolResult(TRUE, DataList(<<"r1", "r2", "r3", "r4">>), "")
      [] beh = "emptylist" -> ToolResult(TRUE, DataList(<<>>), "")
      [] beh = "scalar" -> ToolResult(TRUE, DataScalar("42"), "")
      [] beh = "fail" -> ToolResult(FALSE, DataNone, "Network timeout")
      [] OTHER -> ToolRaised("ToolError")

\* name in self._tools, for a decoded name (None and non-strings are no key)
Registered(reg, name) == name.t = "str" /\ name.s \in DOMAIN reg

\* ToolRegistry.get_tool: the tool, or KeyError
GetTool(reg, name) ==
    IF Registered(reg, name) THEN [ok |-> TRUE, tool |-> reg[name.s], exc |-> ""]
    ELSE [ok |-> FALSE, tool |-> 0, exc |-> "KeyError"]

\* execute_tool(self, name, **kwargs) called as execute_tool(name, **params):
\* a keyword called name is bound to the parameter name a second time, and
\* the call raises TypeError before the body runs
BindsNameTwice(kwargs) == \E x \in kwargs : ArgKey(x) = "name"

\* ToolRegistry.execute_tool(name, **kwargs)
ExecuteTool(reg, name, kwargs, beh) ==
    LET t == GetTool(reg, name)
    IN  IF BindsNameTwice(kwargs) THEN ToolRaised("TypeError")
        ELSE IF t.ok THEN ToolExecute(t.tool, kwargs, beh) ELSE ToolRaised(t.exc)

\* An execute_tool that passes no keyword on to the tool
ExecuteToolCallsBare(reg, name, kwargs) ==
    LET t == GetTool(reg, name)
    IN  IF ~BindsNameTwice(kwargs) /\ t.ok THEN <<[tool |-> t.tool, kwargs |-> {}]>> ELSE <<>>

\* The calls of a tool's execute that one execute_tool makes: the tool and the
\* keywords of each
ExecuteToolCalls(reg, name, kwargs) ==
    LET t == GetTool(reg, name)
    IN  IF ~BindsNameTwice(kwargs) /\ t.ok THEN <<[tool |-> t.tool, kwargs |-> kwargs]>>
        ELSE <<>>

-----------------------------------------------------------------------------
(* Shared pieces of the strategies.                                         *)

\* The first n elements of a list: xs[:n]
Take(xs, n) == SubSeq(xs, 1, IF Len(xs) < n THEN Len(xs) ELSE n)

\* str.lower() of a token
Lower(tok) ==
    CASE tok = "Have Enough" -> "have enough"
      [] tok = "TASK COMPLETE" -> "task complete"
      [] OTHER -> tok

\* str(action): the dict written out
StrVal(v) ==
    CASE v.t = "map" -> <<"{">> \o
                        (IF \E x \in v.m : ArgKey(x) = "query"
                         THEN <<CHOOSE x \in v.m : ArgKey(x) = "query">> ELSE <<>>) \o
                        (IF \E x \in v.m : ArgKey(x) = "max_results"
                         THEN <<CHOOSE x \in v.m : ArgKey(x) = "max_results">> ELSE <<>>) \o
                        <<"}">>
      [] v.t = "absent" -> <<>>
      [] OTHER -> <<v.t, v.s>>

StrDict(d) ==
    <<"{">> \o (IF d.needs_tool.t = "absent" THEN <<>>
                ELSE <<"needs_tool:">> \o StrVal(d.needs_tool))
            \o (IF d.tool_name.t = "absent" THEN <<>>
                ELSE <<"tool_name:">> \o StrVal(d.tool_name))
            \o (IF d.parameters.t = "absent" THEN <<>>
                ELSE <<"parameters:">> \o StrVal(d.parameters))
            \o <<"}">>

\* "\n\n".join(f"{k}: {v}" for k, v in history)
RECURSIVE JoinHistory(_)
JoinHistory(h) ==
    IF h = <<>> THEN <<>>
    ELSE <<Head(h).k \o ":">> \o Head(h).v \o
         (IF Len(h) > 1 THEN <<WS>> ELSE <<>>) \o JoinHistory(Tail(h))

\* needle occurs in text as a contiguous run
Contains(text, needle) ==
    \E i \in 0..(Len(text) - Len(needle)) :
        SubSeq(text, i + 1, i + Len(needle)) = needle

\* The call arguments of execute_tool(action["tool_name"], **parameters):
\* KeyError when tool_name is missing, TypeError when parameters is no map
CallArgs(name, params) ==
    IF name.t = "absent" THEN [ok |-> FALSE, exc |-> "KeyError", name |-> name, kwargs |-> {}]
    ELSE IF params.t # "map"
         THEN [ok |-> FALSE, exc |-> "TypeError", name |-> name, kwargs |-> {}]
    ELSE [ok |-> TRUE, exc |-> "", name |-> name, kwargs |-> params.m]

\* dict.get(key, {}): the default only for a missing key
GetOrEmpty(v) == IF v.t = "absent" THEN VMap({}) ELSE v

\* dict.get(key): None for a missing key
GetOrNone(v) == IF v.t = "absent" THEN Null ELSE v

\* An external call: a generation call with the text it returned (FaultText
\* when it raised instead), or a Registry invocation
Call(kind, text) == [kind |-> kind, text |-> text]
FaultText == <<"<raised>">>

NoObservation == [some |-> FALSE, v |-> <<>>]
Obs(v) == [some |-> TRUE, v |-> v]

Running == [status |-> "running", value |-> <<>>]
RunReturned(v) == [status |-> "returned", value |-> v]
RunRaised(exc) == [status |-> "raised", value |-> <<exc>>]

-----------------------------------------------------------------------------
(* ReActAgent (agents/react_agent.py).                                      *)

\* The texts the generator may return
ThoughtTexts == { <<WS, "w", WS>>, <<"w", "Have Enough">>, <<"TASK COMPLETE">> }
AnswerTexts == { <<"answer", WS>>, <<>> }
DecideTexts ==
    { <<"w", "w">>,
      <<"}", "w", "{">>,
      <<"{", "nt=false", "tn=web_search", "pm=", "{", "q=python tutorials", "}", "}">>,
      <<"{", "nt=true", "tn=web_search", "pm=", "{", "q=python tutorials", "}", "}">>,
      <<FENCE, "json", WS, "{", "nt=true", "tn=web_search", "pm=", "{",
        "q=json tutorials", "}", "}", WS, FENCE>>,
      <<"w", "{", "nt=true", "tn=nope", "pm=", "{", "}", "}">>,
      <<"{", "nt=yes", "tn=web_search", "}">>,
      <<"{", "nt=true", "}">>,
      <<"{", "nt=true", "tn=web_search", "pm=str", "}">>,
      <<"{", "nt=true", "tn=null", "pm=null", "}">>,
      <<"{", "nt=true", "w", "}">> }

Query == <<"Find", "Python", "tutorials">>

\* ReActAgent._is_complete, line 63
done_phrases == {"have enough", "can now answer", "task complete", "have the answer"}

\* A completion check that compares without lowering the thought
IsCompleteCaseSensitive(thought) == \E i \in 1..Len(thought) : thought[i] \in done_phrases

\* ReActAgent._is_complete, line 64
IsComplete(thought) == \E i \in 1..Len(thought) : Lower(thought[i]) \in done_phrases

\* ReActAgent._execute_action, lines 130-139: the observation of a ToolResult
FormatReAct(r) ==
    IF r.success
    THEN IF r.data.t = "list"
         THEN <<"Found:">> \o [i \in 1..Len(Take(r.data.items, 3)) |-> "- " \o r.data.items[i]]
         ELSE <<r.data.s>>
    ELSE <<"Error:", r.error>>

\* _execute_action losing the error text of a fault
ExecuteActionReActSilent(reg, act, beh) ==
    LET c == CallArgs(act.tool_name, GetOrEmpty(act.parameters))
    IN  IF ~c.ok THEN [invoked |-> FALSE, obs |-> <<>>, name |-> c.name, kwargs |-> c.kwargs]
        ELSE LET r == ExecuteTool(reg, c.name, c.kwargs, beh)
             IN  [invoked |-> TRUE,
                  obs |-> IF r.kind = "raise" \/ ~r.success THEN <<>> ELSE FormatReAct(r),
                  name |-> c.name, kwargs |-> c.kwargs]

\* ReActAgent._execute_action: the whole body is inside try/except Exception
ExecuteActionReAct(reg, act, beh) ==
    LET c == CallArgs(act.tool_name, GetOrEmpty(act.parameters))
    IN  IF ~c.ok THEN [invoked |-> FALSE, obs |-> <<"Failed:", c.exc>>, name |-> c.name,
                       kwargs |-> c.kwargs]
        ELSE LET r == ExecuteTool(reg, c.name, c.kwargs, beh)
             IN  [invoked |-> TRUE,
                  obs |-> IF r.kind = "raise" THEN <<"Failed:", r.exc>> ELSE FormatReAct(r),
                  name |-> c.name, kwargs |-> c.kwargs]

\* A final prompt that leaves the transcript out
FinalPromptReActNoTranscript(q, h) ==
    <<"Original question:">> \o q \o <<"My reasoning process:">> \o <<"Answer:">>

\* ReActAgent._final_answer: the prompt
FinalPromptReAct(q, h) ==
    <<"Original question:">> \o q \o <<"My reasoning process:">> \o JoinHistory(h)
        \o <<"Answer:">>

Invocation(name, kwargs) == [name |-> name, kwargs |-> kwargs]

\* run, lines 25-31: THOUGHT, then the completion check
ReActThink ==
    /\ agent = "react" /\ pc = "think"
    /\ \E text \in ThoughtTexts :
        LET thought == Strip(text)
        IN  /\ calls' = Append(calls, Call("THINK", text))
            /\ history' = Append(history, [k |-> "Thought", v |-> thought])
            /\ pc' = IF IsComplete(thought) THEN "synth" ELSE "decide"
    /\ UNCHANGED <<agent, maxSteps, step, action, observation, invocations,
                   synthPrompt, result>>

\* A decision step that writes the Action entry before the test of line 35
ReActDecideLogsFirst ==
    /\ agent = "react" /\ pc = "decide"
    /\ \E text \in DecideTexts :
        LET a == DecideAction(text)
        IN  /\ calls' = Append(calls, Call("DECIDE", text))
            /\ history' = Append(history, [k |-> "Action", v |-> StrDict(a.d)])
            /\ IF a.some THEN action' = a.d /\ pc' = "act"
               ELSE pc' = "synth" /\ UNCHANGED action
    /\ UNCHANGED <<agent, maxSteps, step, observation, invocations, synthPrompt, result>>

\* run, lines 33-38: ACTION decision
ReActDecide ==
    /\ agent = "react" /\ pc = "decide"
    /\ \E text \in DecideTexts :
        LET a == DecideAction(text)
        IN  /\ calls' = Append(calls, Call("DECIDE", text))
            /\ IF a.some
               THEN /\ action' = a.d
                    /\ history' = Append(history, [k |-> "Action", v |-> StrDict(a.d)])
                    /\ pc' = "act"
               ELSE /\ pc' = "synth"
                    /\ UNCHANGED <<action, history>>
    /\ UNCHANGED <<agent, maxSteps, step, observation, invocations, synthPrompt, result>>

\* A loop that runs one iteration more: range(1, self.max_steps + 2)
LoopContinuesOffByOne(s, n) == s <= n

\* run, line 22: for step in range(1, self.max_steps + 1) has another value
\* after step
LoopContinues(s, n) == s < n

\* run, lines 40-42 and the loop's next iteration or exit
ReActAct ==
    /\ agent = "react" /\ pc = "act"
    /\ \E beh \in ToolBehaviours :
        LET e == ExecuteActionReAct(tools, action, beh)
        IN  /\ observation' = Obs(e.obs)
            /\ history' = Append(history, [k |-> "Observation", v |-> e.obs])
            /\ invocations' = IF e.invoked
                              THEN Append(invocations, Invocation(e.name, e.kwargs))
                              ELSE invocations
            /\ calls' = IF e.invoked THEN Append(calls, Call("INVOKE", <<>>)) ELSE calls
    /\ IF LoopContinues(step, maxSteps) THEN step' = step + 1 /\ pc' = "think"
                                         ELSE step' = step /\ pc' = "synth"
    /\ UNCHANGED <<agent, maxSteps, action, synthPrompt, result>>

\* A synthesis that is asked a second time
ReActSynthTwice ==
    /\ agent = "react" /\ pc = "synth"
    /\ synthPrompt' = FinalPromptReAct(Query, history)
    /\ \E text \in AnswerTexts :
        /\ calls' = Append(calls, Call("SYNTH", text))
        /\ IF \E i \in DOMAIN calls : calls[i].kind = "SYNTH"
           THEN result' = RunReturned(Strip(text)) /\ pc' = "done"
           ELSE result' = result /\ pc' = "synth"
    /\ UNCHANGED <<agent, maxSteps, step, history, action, observation, invocations>>

\* _final_answer, reached from lines 31, 36 and 44
ReActSynth ==
    /\ agent = "react" /\ pc = "synth"
    /\ synthPrompt' = FinalPromptReAct(Query, history)
    /\ \E text \in AnswerTexts : calls' = Append(calls, Call("SYNTH", text)) /\ result' = RunReturned(Strip(text))
    /\ pc' = "done"
    /\ UNCHANGED <<agent, maxSteps, step, history, action, observation, invocations>>

\* model.generate raises: nothing in run catches it
GenStates == {"think", "decide", "synth", "chain", "build", "evaluate", "totdecide"}
GenCallOf(p) ==
    CASE p = "think" -> "THINK"
      [] p = "decide" -> "DECIDE"
      [] p = "totdecide" -> "DECIDE"
      [] p = "synth" -> "SYNTH"
      [] p = "chain" -> "CHAIN"
      [] p = "build" -> "BRANCH"
      [] OTHER -> "EVAL"

\* A fault that is absorbed: the phase is left to call the provider again
GenFaultRetried ==
    /\ agent # "none" /\ pc \in GenStates
    /\ calls' = Append(calls, Call(GenCallOf(pc), FaultText))
    /\ UNCHANGED <<agent, maxSteps, pc, step, history, action, observation, invocations,
                   synthPrompt, result>>

GenFault ==
    /\ agent # "none" /\ pc \in GenStates
    /\ calls' = Append(calls, Call(GenCallOf(pc), FaultText))
    /\ result' = RunRaised("GenerationFault")
    /\ pc' = "raised"
    /\ UNCHANGED <<agent, maxSteps, step, history, action, observation, invocations,
                   synthPrompt>>

-----------------------------------------------------------------------------
(* CoTAgent (agents/cot_agent.py).                                          *)

\* The chain response is a list of lines; a line is a list of tokens, where
\* "Step:" stands for a leading  Step <n>:  and "Step" for a leading  Step <n>
\* with no colon after it.
ChainTexts ==
    { << <<"t1">>, <<"Step:", "t2">>, <<"Step:", "t3">> >>,
      << <<"t1">>, <<"t1b">>, <<"Step:", "t2">>, <<"Step:", "t3">>, <<"Step:", "t4">> >>,
      << <<"Step:">>, <<"Step", "t2">> >>,
      << <<"Step:">>, <<"t2">>, <<>>, <<"Step:", "t3">> >>,
      << >> }

\* line.startswith('Step ')
StartsWithStep(line) == line # <<>> /\ Head(line) \in {"Step:", "Step"}

\* line.split(':', 1)[-1].strip(): what follows the first colon, or the line
AfterColon(line) == IF Head(line) = "Step:" THEN Strip(Tail(line)) ELSE line

\* lines 92-104: the loop over the lines; acc is <<thoughts, current_thought>>
RECURSIVE ScanLines(_, _, _)
ScanLines(lines, thoughts, cur) ==
    IF lines = <<>> THEN IF cur # <<>> THEN Append(thoughts, cur) ELSE thoughts
    ELSE LET line == Strip(Head(lines))
             saved == IF StartsWithStep(line) /\ cur # <<>> THEN Append(thoughts, cur)
                      ELSE thoughts
             cur1 == IF StartsWithStep(line) /\ cur # <<>> THEN <<>> ELSE cur
             body == IF StartsWithStep(line) THEN AfterColon(line) ELSE line
         IN  ScanLines(Tail(lines), saved, IF body # <<>> THEN cur1 \o body ELSE cur1)

\* The response as one text: the lines with a line break between them
RECURSIVE JoinLines(_)
JoinLines(lines) ==
    IF lines = <<>> THEN <<>>
    ELSE Head(lines) \o (IF Len(lines) > 1 THEN <<WS>> ELSE <<>>) \o JoinLines(Tail(lines))

\* _generate_thought_chain returning every thought it parsed
GenerateThoughtChainUncut(lines, k) == ScanLines(lines, <<>>, <<>>)

\* CoTAgent._generate_thought_chain, after the generation call
GenerateThoughtChain(lines, k) == Take(ScanLines(lines, <<>>, <<>>), k)

\* CoTAgent._execute_action, lines 209-227: the observation of a ToolResult
FormatCoT(r) ==
    IF r.success
    THEN IF r.data.t = "list"
         THEN [i \in 1..Len(Take(r.data.items, 5)) |-> "n. " \o r.data.items[i]]
         ELSE <<r.data.s>>
    ELSE <<"Error:", r.error>>

\* CoTAgent._execute_action: nothing is caught
ExecuteActionCoT(reg, act, beh) ==
    LET c == CallArgs(act.tool_name, GetOrEmpty(act.parameters))
    IN  IF ~c.ok THEN [invoked |-> FALSE, raised |-> TRUE, exc |-> c.exc, obs |-> <<>>,
                       name |-> c.name, kwargs |-> c.kwargs]
        ELSE LET r == ExecuteTool(reg, c.name, c.kwargs, beh)
             IN  [invoked |-> TRUE, raised |-> r.kind = "raise", exc |-> r.exc,
                  obs |-> IF r.kind = "raise" THEN <<>> ELSE FormatCoT(r),
                  name |-> c.name, kwargs |-> c.kwargs]

\* "\n".join(f"Step {i+1}: {t}" for i, t in enumerate(thought_chain))
RECURSIVE JoinSteps(_)
JoinSteps(ts) ==
    IF ts = <<>> THEN <<>> ELSE <<"Step:">> \o Head(ts) \o JoinSteps(Tail(ts))

\* if observation: a None or empty observation takes the second prompt
ObsTruthy(o) == o.some /\ o.v # <<>>

\* CoTAgent._final_answer: the prompt
FinalPromptCoT(q, ch, o) ==
    IF ObsTruthy(o)
    THEN <<"Question:">> \o q \o <<"My reasoning:">> \o JoinSteps(ch)
            \o <<"Information found:">> \o o.v \o <<"Answer:">>
    ELSE <<"Question:">> \o q \o <<"My reasoning:">> \o JoinSteps(ch) \o <<"Answer:">>

\* run, line 50
CoTChain ==
    /\ agent = "cot" /\ pc = "chain"
    /\ \E text \in ChainTexts :
        /\ calls' = Append(calls, Call("CHAIN", JoinLines(text)))
        /\ chain' = GenerateThoughtChain(text, numThoughts)
    /\ pc' = "decide"
    /\ UNCHANGED <<agent, maxSteps, step, history, action, observation, invocations,
                   synthPrompt, result, numThoughts>>

\* run, lines 53-57
CoTDecide ==
    /\ agent = "cot" /\ pc = "decide"
    /\ \E text \in DecideTexts :
        LET a == DecideAction(text)
        IN  /\ calls' = Append(calls, Call("DECIDE", text))
            /\ IF a.some THEN action' = a.d /\ pc' = "act"
               ELSE pc' = "synth" /\ UNCHANGED action
    /\ UNCHANGED <<agent, maxSteps, step, history, observation, invocations,
                   synthPrompt, result, numThoughts, chain>>

\* run, line 58
CoTAct ==
    /\ agent = "cot" /\ pc = "act"
    /\ \E beh \in ToolBehaviours :
        LET e == ExecuteActionCoT(tools, action, beh)
        IN  /\ invocations' = IF e.invoked
                              THEN Append(invocations, Invocation(e.name, e.kwargs))
                              ELSE invocations
            /\ calls' = IF e.invoked THEN Append(calls, Call("INVOKE", <<>>)) ELSE calls
            /\ IF e.raised
               THEN /\ result' = RunRaised(e.exc)
                    /\ pc' = "raised"
                    /\ UNCHANGED observation
               ELSE /\ observation' = Obs(e.obs)
                    /\ pc' = "synth"
                    /\ UNCHANGED result
    /\ UNCHANGED <<agent, maxSteps, step, history, action, synthPrompt,
                   numThoughts, chain>>

\* run, lines 61-63
CoTSynth ==
    /\ agent = "cot" /\ pc = "synth"
    /\ synthPrompt' = FinalPromptCoT(Query, chain, observation)
    /\ \E text \in AnswerTexts : calls' = Append(calls, Call("SYNTH", text)) /\ result' = RunReturned(Strip(text))
    /\ pc' = "done"
    /\ UNCHANGED <<agent, maxSteps, step, history, action, observation, invocations,
                   numThoughts, chain>>

-----------------------------------------------------------------------------
(* TreeOfThoughtsAgent (agents/tot_agent.py).                               *)

\* A branch response: "[" and "]" are the brackets, "b1".. string items and
\* "#7" a number item of the JSON array
BranchTexts ==
    { <<"[", "b1", "]">>,
      <<"w", "[", "b1", "b2", "b3", "]", "w">>,
      <<"[", "]">>,
      <<"w", "w">>,
      <<"[", "#7", "]">> }

BranchItems == {"b1", "b2", "b3", "#7"}

\* An evaluation response: "sc=.." is the member "score", "ev=.." the member
\* "evaluation"; scores are in tenths (95 is 9.5)
EvalTexts ==
    { <<"{", "sc=30", "ev=weak", "}">>,
      <<"{", "sc=95", "ev=good", "}">>,
      <<"{", "ev=good", "}">>,
      <<"w">>,
      <<"{", "sc=95", "w", "}">>,
      <<"{", "sc=high", "ev=good", "}">>,
      <<"{", "sc=110", "}">> }

ToTDecideTexts ==
    { <<"w", "w">>,
      <<"}", "w", "{">>,
      <<"{", "nt=false", "tn=web_search", "pm=", "{", "q=python tutorials", "}", "}">>,
      <<FENCE, "json", WS, "{", "nt=true", "tn=web_search", "pm=", "{",
        "q=json tutorials", "}", "}", WS, FENCE>>,
      <<"{", "nt=true", "tn=web_search", "pm=", "{", "q=python tutorials", "}", "}">>,
      <<"{", "nt=true", "tn=nope", "}">>,
      <<"{", "nt=true", "pm=null", "}">> }

\* TreeNode(content, depth, parent); parent 0 is None
TreeNode(content, depth, parent) == [content |-> content, depth |-> depth, parent |-> parent]

\* json.loads of a "[" ... "]" span: the list, or not ok
JsonLoadsList(s) ==
    IF Len(s) >= 2 /\ s[1] = "[" /\ s[Len(s)] = "]"
       /\ \A i \in 2..(Len(s) - 1) : s[i] \in BranchItems \cup {WS}
    THEN [ok |-> TRUE, items |-> SelectSeq(SubSeq(s, 2, Len(s) - 1), LAMBDA x : x # WS)]
    ELSE [ok |-> FALSE, items |-> <<>>]

RECURSIVE FirstPartBracket(_)
FirstPartBracket(parts) ==
    IF parts = <<>> THEN [found |-> FALSE, part |-> <<>>]
    ELSE IF Has(Head(parts), "[") THEN [found |-> TRUE, part |-> Head(parts)]
    ELSE FirstPartBracket(Tail(parts))

\* the fallback of _generate_branches, line 204
Placeholders(b) == [i \in 1..b |-> "Approach " \o ToString(i)]

\* Branches that keep every item of the list, without the cut to b
GenerateBranchesUncut(text, b) ==
    LET r0 == Strip(text)
        r == IF Has(r0, FENCE)
             THEN LET p == FirstPartBracket(Split(r0))
                  IN  IF p.found THEN Strip(ReplaceJson(p.part)) ELSE r0
             ELSE r0
        start == Find(r, "[")
        end == RFind(r, "]")
    IN  IF start # 0 /\ end > start
        THEN LET j == JsonLoadsList(SubSeq(r, start, end))
             IN  IF j.ok THEN j.items ELSE Placeholders(b)
        ELSE Placeholders(b)

\* TreeOfThoughtsAgent._generate_branches, after the generation call
GenerateBranches(text, b) ==
    LET r0 == Strip(text)
        r == IF Has(r0, FENCE)
             THEN LET p == FirstPartBracket(Split(r0))
                  IN  IF p.found THEN Strip(ReplaceJson(p.part)) ELSE r0
             ELSE r0
        start == Find(r, "[")
        end == RFind(r, "]")
    IN  IF start # 0 /\ end > start
        THEN LET j == JsonLoadsList(SubSeq(r, start, end))
             IN  IF j.ok THEN Take(j.items, b) ELSE Placeholders(b)
        ELSE Placeholders(b)

\* branch_content[:80] of line 139 raises TypeError on a number
IsStr(item) == item # "#7"

\* _build_tree between two generation calls: add the children that are due,
\* return from the nodes that are complete, and stop at the next node that
\* needs a generation call (cursor), at the end of the build (cursor 0) or
\* at a TypeError (raised).  A frame is [node, todo].
RECURSIVE Advance(_, _, _)
Advance(ns, st, d) ==
    IF st = <<>> THEN [nodes |-> ns, stack |-> st, cursor |-> 0, raised |-> FALSE]
    ELSE LET top == st[Len(st)]
         IN  IF top.todo = <<>> THEN Advance(ns, SubSeq(st, 1, Len(st) - 1), d)
             ELSE LET child == TreeNode(Head(top.todo), ns[top.node].depth + 1, top.node)
                      ns1 == Append(ns, child)
                      st1 == [st EXCEPT ![Len(st)].todo = Tail(top.todo)]
                  IN  IF ~IsStr(child.content)
                      THEN [nodes |-> ns1, stack |-> st1, cursor |-> 0, raised |-> TRUE]
                      ELSE IF child.depth >= d THEN Advance(ns1, st1, d)
                      ELSE [nodes |-> ns1, stack |-> st1, cursor |-> Len(ns1),
                            raised |-> FALSE]

\* node.children is empty
IsLeaf(ns, i) == \A j \in 1..Len(ns) : ns[j].parent # i

\* _get_leaf_nodes: the leaves in traversal order
RECURSIVE LeavesFrom(_, _)
LeavesFrom(ns, i) ==
    IF i > Len(ns) THEN <<>>
    ELSE (IF IsLeaf(ns, i) THEN <<i>> ELSE <<>>) \o LeavesFrom(ns, i + 1)

\* A traversal that takes every node for a leaf
GetLeafNodesAll(ns) == [i \in 1..Len(ns) |-> i]

GetLeafNodes(ns) == LeavesFrom(ns, 1)

\* A walk that stops at the child of the root
RECURSIVE GetPathBelowRoot(_, _)
GetPathBelowRoot(ns, i) ==
    IF i = 0 \/ ns[i].parent = 0 THEN <<>>
    ELSE Append(GetPathBelowRoot(ns, ns[i].parent), ns[i].content)

\* TreeNode.get_path: the contents from the root to node i
RECURSIVE GetPath(_, _)
GetPath(ns, i) == IF i = 0 THEN <<>> ELSE Append(GetPath(ns, ns[i].parent), ns[i].content)

\* A score: a number (in tenths) or a string
Num(n) == [t |-> "num", n |-> n, s |-> ""]
StrScore(x) == [t |-> "str", n |-> 0, s |-> x]

EvalMember(tok) ==
    CASE tok = "sc=30" -> <<"score", Num(30)>>
      [] tok = "sc=95" -> <<"score", Num(95)>>
      [] tok = "sc=70" -> <<"score", Num(70)>>
      [] tok = "sc=110" -> <<"score", Num(110)>>
      [] tok = "sc=high" -> <<"score", StrScore("high")>>
      [] tok = "ev=weak" -> <<"evaluation", StrScore("weak")>>
      [] tok = "ev=good" -> <<"evaluation", StrScore("good")>>
      [] OTHER -> <<"", Num(0)>>

\* json.loads of the evaluation object and the two .get with defaults
RECURSIVE EvalMembers(_, _, _)
EvalMembers(s, i, acc) ==
    IF i > Len(s) THEN [ok |-> FALSE, score |-> acc.score, evaluation |-> acc.evaluation]
    ELSE IF s[i] = WS THEN EvalMembers(s, i + 1, acc)
    ELSE IF s[i] = "}" THEN [ok |-> i = Len(s), score |-> acc.score,
                             evaluation |-> acc.evaluation]
    ELSE IF EvalMember(s[i])[1] = "score"
         THEN EvalMembers(s, i + 1, [acc EXCEPT !.score = EvalMember(s[i])[2]])
    ELSE IF EvalMember(s[i])[1] = "evaluation"
         THEN EvalMembers(s, i + 1, [acc EXCEPT !.evaluation = EvalMember(s[i])[2].s])
    ELSE [ok |-> FALSE, score |-> acc.score, evaluation |-> acc.evaluation]

DefaultScore == Num(50)

\* TreeOfThoughtsAgent._evaluate_single_path, after the generation call
EvaluateSinglePath(text) ==
    LET r0 == Strip(text)
        r == IF Has(r0, FENCE)
             THEN LET p == FirstPartOpen(Split(r0))
                  IN  IF p.found THEN Strip(ReplaceJson(p.part)) ELSE r0
             ELSE r0
        fallback == [score |-> DefaultScore, evaluation |-> "Could not evaluate path"]
    IN  IF HasSpan(r)
        THEN LET j == EvalMembers(Span(r), 2,
                                  [score |-> DefaultScore, evaluation |-> "No evaluation"])
             IN  IF j.ok THEN [score |-> j.score, evaluation |-> j.evaluation]
                 ELSE fallback
        ELSE fallback

\* x['score'] comparisons of list.sort raise TypeError between str and float
Comparable(ev) == \A i, j \in 1..Len(ev) : ev[i].score.t = ev[j].score.t

\* list.sort(key=score, reverse=True): stable, descending
RECURSIVE InsertDesc(_, _)
InsertDesc(sorted, e) ==
    IF sorted = <<>> THEN <<e>>
    ELSE IF Head(sorted).score.n >= e.score.n THEN <<Head(sorted)>> \o InsertDesc(Tail(sorted), e)
    ELSE <<e>> \o sorted

RECURSIVE SortDesc(_)
SortDesc(ev) ==
    IF ev = <<>> THEN <<>>
    ELSE InsertDesc(SortDesc(SubSeq(ev, 1, Len(ev) - 1)), ev[Len(ev)])

\* A selection that takes the last entry of the sorted list
SelectBestPathLast(ev) == ev[Len(ev)]

\* TreeOfThoughtsAgent._select_best_path
SelectBestPath(ev) == ev[1]

\* _execute_if_needed, lines 368-382: the observation of a ToolResult
FormatToT(r) ==
    IF r.success
    THEN IF r.data.t = "list"
         THEN [i \in 1..Len(Take(r.data.items, 5)) |-> "n. " \o r.data.items[i]]
         ELSE <<r.data.s>>
    ELSE <<"Error:", r.error>>

\* _execute_if_needed, lines 362-390: every exception is caught and gives None
ExecuteActionToT(reg, act, beh) ==
    LET name == GetOrNone(act.tool_name)
        params == GetOrEmpty(act.parameters)
    IN  IF params.t # "map"
        THEN [invoked |-> FALSE, obs |-> NoObservation, name |-> name, kwargs |-> {}]
        ELSE LET r == ExecuteTool(reg, name, params.m, beh)
             IN  [invoked |-> TRUE,
                  obs |-> IF r.kind = "raise" THEN NoObservation ELSE Obs(FormatToT(r)),
                  name |-> name, kwargs |-> params.m]

\* f"{score}": the score as the prompts show it
ScoreText(sc) == IF sc.t = "num" THEN ToString(sc.n) ELSE sc.s

\* TreeOfThoughtsAgent._final_answer: the prompt
FinalPromptToT(q, b, o) ==
    IF ObsTruthy(o)
    THEN <<"Question:">> \o q \o <<"Best reasoning approach", ScoreText(b.score)>> \o JoinSteps([i \in 1..Len(b.path) |-> <<b.path[i]>>])
            \o <<"Why:", b.evaluation>> \o <<"Additional information gathered:">> \o o.v
            \o <<"Answer:">>
    ELSE <<"Question:">> \o q \o <<"Best reasoning approach", ScoreText(b.score)>> \o JoinSteps([i \in 1..Len(b.path) |-> <<b.path[i]>>])
            \o <<"Why:", b.evaluation>> \o <<"Answer:">>

NoBest == [path |-> <<>>, score |-> DefaultScore, evaluation |-> "", node |-> 0]

\* run, line 99: one generation call of _build_tree and the tree work up to
\* the next one
ToTBuild ==
    /\ agent = "tot" /\ pc = "build"
    /\ \E text \in BranchTexts :
        LET branches == GenerateBranches(text, numBranches)
            a == Advance(nodes, Append(stack, [node |-> cursor, todo |-> branches]), maxDepth)
        IN  /\ calls' = Append(calls, Call("BRANCH", text))
            /\ nodes' = a.nodes
            /\ stack' = a.stack
            /\ cursor' = a.cursor
            /\ IF a.raised THEN pc' = "raised" /\ result' = RunRaised("TypeError")
               ELSE /\ pc' = IF a.cursor = 0 THEN "evaluate" ELSE "build"
                    /\ UNCHANGED result
    /\ UNCHANGED <<agent, maxSteps, step, history, action, observation, invocations,
                   synthPrompt, numThoughts, chain, numBranches, maxDepth, evaluated, best>>

\* run, lines 102-106: one generation call of _evaluate_paths; after the last
\* leaf the sort and _select_best_path
ToTEvaluate ==
    /\ agent = "tot" /\ pc = "evaluate"
    /\ \E text \in EvalTexts :
        LET leaves == GetLeafNodes(nodes)
            leaf == leaves[Len(evaluated) + 1]
            e == EvaluateSinglePath(text)
            ev == Append(evaluated, [path |-> GetPath(nodes, leaf), score |-> e.score,
                                     evaluation |-> e.evaluation, node |-> leaf])
        IN  /\ calls' = Append(calls, Call("EVAL", text))
            /\ IF Len(ev) < Len(leaves)
               THEN evaluated' = ev /\ UNCHANGED <<pc, best, result>>
               ELSE IF Comparable(ev)
                    THEN /\ evaluated' = SortDesc(ev)
                         /\ best' = SelectBestPath(SortDesc(ev))
                         /\ pc' = "totdecide"
                         /\ UNCHANGED result
                    ELSE /\ evaluated' = ev
                         /\ pc' = "raised" /\ result' = RunRaised("TypeError")
                         /\ UNCHANGED best
    /\ UNCHANGED <<agent, maxSteps, step, history, action, observation, invocations,
                   synthPrompt, numThoughts, chain, numBranches, maxDepth, nodes, stack,
                   cursor>>

\* _execute_if_needed, lines 344-361: the decision
ToTDecide ==
    /\ agent = "tot" /\ pc = "totdecide"
    /\ \E text \in ToTDecideTexts :
        LET a == DecideActionToT(text)
        IN  /\ calls' = Append(calls, Call("DECIDE", text))
            /\ IF a.some THEN action' = a.d /\ pc' = "act"
               ELSE pc' = "synth" /\ UNCHANGED action
    /\ UNCHANGED <<agent, maxSteps, step, history, observation, invocations, synthPrompt,
                   result, numThoughts, chain, numBranches, maxDepth, nodes, stack, cursor,
                   evaluated, best>>

\* _execute_if_needed, lines 362-390: the invocation
ToTAct ==
    /\ agent = "tot" /\ pc = "act"
    /\ \E beh \in ToolBehaviours :
        LET e == ExecuteActionToT(tools, action, beh)
        IN  /\ invocations' = IF e.invoked
                              THEN Append(invocations, Invocation(e.name, e.kwargs))
                              ELSE invocations
            /\ calls' = IF e.invoked THEN Append(calls, Call("INVOKE", <<>>)) ELSE calls
            /\ observation' = e.obs
    /\ pc' = "synth"
    /\ UNCHANGED <<agent, maxSteps, step, history, action, synthPrompt, result,
                   numThoughts, chain, numBranches, maxDepth, nodes, stack, cursor,
                   evaluated, best>>

\* run, lines 112-114
ToTSynth ==
    /\ agent = "tot" /\ pc = "synth"
    /\ synthPrompt' = FinalPromptToT(Query, best, observation)
    /\ \E text \in AnswerTexts : calls' = Append(calls, Call("SYNTH", text)) /\ result' = RunReturned(Strip(text))
    /\ pc' = "done"
    /\ UNCHANGED <<agent, maxSteps, step, history, action, observation, invocations,
                   numThoughts, chain, numBranches, maxDepth, nodes, stack, cursor,
                   evaluated, best>>

-----------------------------------------------------------------------------
(* Registry development: the operations of ToolRegistry on a live mapping.  *)

MaxImpl == 2

ToolNames == {"web_search", "calendar", "nope"}
EmptyRegistry == [n \in {} |-> 0]
NoGet == [ok |-> FALSE, tool |-> 0, exc |-> ""]
NoCall == [op |-> "none", name |-> Null, beh |-> "none", got |-> NoGet,
           out |-> ToolRaised(""), found |-> <<>>, kwargs |-> {}, reached |-> <<>>]

\* The names a caller may pass: registered or not, or None
CallNames == {VStr(n) : n \in ToolNames} \cup {Null}
CallKwargs == {{}, {"q=python tutorials"}, {"name=x"}}

\* A tool class found in a module: the name its instance reports and which
\* class it is; Broken is a class whose instantiation raises
ToolClass(name, impl) == [name |-> name, impl |-> impl]
Broken == [name |-> "", impl |-> 0]

\* What the scan of the tools folder finds: the modules in scan order, each
\* with its tool classes in member order
ScanResults ==
    { <<>>,
      <<<<ToolClass("web_search", 1)>>>>,
      <<<<ToolClass("web_search", 1)>>, <<ToolClass("calendar", 1)>>>>,
      <<<<ToolClass("web_search", 1)>>, <<ToolClass("web_search", 2)>>>>,
      <<<<ToolClass("calendar", 2), ToolClass("calendar", 1)>>>>,
      <<<<ToolClass("calendar", 1), ToolClass("web_search", 2)>>,
        <<ToolClass("web_search", 1)>>>>,
      <<<<Broken, ToolClass("calendar", 1)>>, <<ToolClass("web_search", 1)>>>>,
      <<<<ToolClass("web_search", 2), Broken, ToolClass("calendar", 1)>>,
        <<ToolClass("web_search", 1)>>>> }

\* A load in which a later class of a name replaces the earlier one
RECURSIVE LoadModuleOverwrite(_, _)
LoadModuleOverwrite(reg, classes) ==
    IF classes = <<>> \/ Head(classes) = Broken THEN reg
    ELSE LET c == Head(classes)
         IN  LoadModuleOverwrite([n \in DOMAIN reg \cup {c.name} |->
                                     IF n = c.name THEN c.impl ELSE reg[n]], Tail(classes))

\* _load_tools, lines 39-49: the classes of one module, up to the first that
\* raises; a name that is already present is skipped
RECURSIVE LoadModule(_, _)
LoadModule(reg, classes) ==
    IF classes = <<>> \/ Head(classes) = Broken THEN reg
    ELSE LET c == Head(classes)
         IN  IF c.name \in DOMAIN reg THEN LoadModule(reg, Tail(classes))
             ELSE LoadModule([n \in DOMAIN reg \cup {c.name} |->
                                 IF n = c.name THEN c.impl ELSE reg[n]], Tail(classes))

\* _load_tools, lines 30-49: every module of the scan
RECURSIVE LoadTools(_, _)
LoadTools(reg, found) ==
    IF found = <<>> THEN reg ELSE LoadTools(LoadModule(reg, Head(found)), Tail(found))

\* A registration that keeps the older tool of a name that is present
RegisterKeepOlder(reg, name, impl) ==
    [n \in DOMAIN reg \cup {name} |-> IF n \in DOMAIN reg THEN reg[n] ELSE impl]

\* ToolRegistry.register: the newer registration replaces the older
Register(reg, name, impl) == [n \in DOMAIN reg \cup {name} |-> IF n = name THEN impl ELSE reg[n]]

RegRegister ==
    /\ \E name \in ToolNames \ {"nope"}, impl \in 1..MaxImpl :
        /\ tools' = Register(tools, name, impl)
        /\ rlast' = [op |-> "register", name |-> VStr(name), beh |-> "none",
                     got |-> NoGet, out |-> ToolRaised(""),
                     found |-> <<<<ToolClass(name, impl)>>>>, kwargs |-> {},
                     reached |-> <<>>]
    /\ UNCHANGED <<dvars, svars, pvars, avars, cvars, tvars>>

\* ToolRegistry.list_tools: the keys of _tools
ListTools(reg) == DOMAIN reg

\* tool.description of a tool instance
Description(impl) == "description " \o ToString(impl)

\* ToolRegistry.get_tool_descriptions: name -> description
GetToolDescriptions(reg) == [n \in DOMAIN reg |-> Description(reg[n])]

\* ToolRegistry.__contains__
RegContains(reg, name) == name \in DOMAIN reg

\* ToolRegistry.__len__
RegLen(reg) == Cardinality(DOMAIN reg)

\* ToolRegistry(): __init__ sets an empty mapping and runs _load_tools
RegLoadTools ==
    /\ \E found \in ScanResults :
        /\ tools' = LoadTools(EmptyRegistry, found)
        /\ rlast' = [op |-> "load", name |-> Null, beh |-> "none", got |-> NoGet,
                     out |-> ToolRaised(""), found |-> found, kwargs |-> {},
                     reached |-> <<>>]
    /\ UNCHANGED <<dvars, svars, pvars, avars, cvars, tvars>>

\* ToolRegistry.clear
RegClear ==
    /\ tools' = EmptyRegistry
    /\ rlast' = [op |-> "clear", name |-> Null, beh |-> "none", got |-> NoGet,
                 out |-> ToolRaised(""), found |-> <<>>, kwargs |-> {}, reached |-> <<>>]
    /\ UNCHANGED <<dvars, svars, pvars, avars, cvars, tvars>>

\* A caller invokes get_tool and sees it return the tool or raise
RegGetTool ==
    /\ \E name \in CallNames :
        rlast' = [op |-> "get_tool", name |-> name, beh |-> "none",
                  got |-> GetTool(tools, name), out |-> ToolRaised(""), found |-> <<>>,
                  kwargs |-> {}, reached |-> <<>>]
    /\ UNCHANGED <<tools, dvars, svars, pvars, avars, cvars, tvars>>

\* A caller invokes execute_tool and sees it return or raise; beh is what the
\* named tool's execute does when it is reached
RegExecuteTool ==
    /\ \E name \in CallNames, kwargs \in CallKwargs, beh \in ToolBehaviours :
        rlast' = [op |-> "execute_tool", name |-> name, beh |-> beh, got |-> NoGet,
                  out |-> ExecuteTool(tools, name, kwargs, beh), found |-> <<>>,
                  kwargs |-> kwargs, reached |-> ExecuteToolCalls(tools, name, kwargs)]
    /\ UNCHANGED <<tools, dvars, svars, pvars, avars, cvars, tvars>>

-----------------------------------------------------------------------------
(* Initial states and specifications.                                       *)

MaxSteps == 2
MaxThoughts == 2
MaxBranches == 2
MaxDepth == 2
MaxLeaves == 4

PIdle ==
    /\ ptext = [kind |-> "bare", pre |-> <<>>, obj |-> <<>>, post |-> <<>>]
    /\ pdone = TRUE
    /\ pout = [react |-> NoDecision, cot |-> NoDecision, tot |-> NoDecision,
               bare |-> NoDecision, baretot |-> NoDecision]

RIdle == rlast = NoCall

\* No prompt asked and no invocation made yet, no earlier run
NoPrompts == [x \in {} |-> <<>>]
NoRun == [some |-> FALSE, nodes |-> <<>>, best |-> NoBest, result |-> Running,
          observation |-> NoObservation]
DIdle == provider = NoPrompts /\ capability = NoPrompts /\ earlier = NoRun

\* No chat request is being served, no call of safe_execute and no call of
\* OllamaModel.generate is under way
NoRequest == [agent_type |-> "none", max_steps |-> 0, response |-> "none"]
NoOutcome == [status |-> "none", value |-> <<>>]
NoPreferences == [p \in {} |-> <<>>]
MIdle ==
    /\ session_id = "none" /\ memory = <<>> /\ explicit = NoPreferences
    /\ ran = NoOutcome /\ runs = 0
SIdle ==
    /\ MIdle
    /\ request = NoRequest
    /\ parameters = <<>> /\ kwargsIn = <<>> /\ executed = <<>> /\ outcome = NoOutcome
    /\ max_retries = 0 /\ genArgs = <<>> /\ posts = <<>> /\ generated = NoOutcome

\* The locals of a run at its entry
RunEntry ==
    /\ step = 1 /\ history = <<>> /\ action = EmptyDict /\ observation = NoObservation
    /\ calls = <<>> /\ invocations = <<>> /\ synthPrompt = <<>> /\ result = Running
    /\ chain = <<>> /\ stack = <<>> /\ evaluated = <<>> /\ best = NoBest

\* The locals of a call of run: what lives in its own frame
RunLocals ==
    [pc |-> pc, step |-> step, history |-> history, action |-> action,
     observation |-> observation, calls |-> calls, invocations |-> invocations,
     synthPrompt |-> synthPrompt, result |-> result, chain |-> chain, nodes |-> nodes,
     stack |-> stack, cursor |-> cursor, evaluated |-> evaluated, best |-> best]

\* A second call of run on the same agent stands at its entry
Pending == other = RunLocals

AIdle ==
    /\ agent = "none" /\ pc = "idle" /\ maxSteps = 1 /\ numThoughts = 1
    /\ numBranches = 1 /\ maxDepth = 1 /\ nodes = <<>> /\ cursor = 0
    /\ RunEntry

\* The registries a run may be bound to
Registries == {EmptyRegistry, Register(EmptyRegistry, "web_search", 1)}

\* ReActAgent(model, registry, max_steps) and the entry of run
ReActInit ==
    /\ PIdle /\ RIdle /\ DIdle /\ SIdle /\ RunEntry
    /\ tools \in Registries
    /\ agent = "react" /\ pc = "think"
    /\ maxSteps \in 1..MaxSteps
    /\ numThoughts = 1 /\ numBranches = 1 /\ maxDepth = 1 /\ nodes = <<>> /\ cursor = 0
    /\ Pending

\* CoTAgent(model, registry, num_thoughts) and the entry of run
CoTInit ==
    /\ PIdle /\ RIdle /\ DIdle /\ SIdle /\ RunEntry
    /\ tools \in Registries
    /\ agent = "cot" /\ pc = "chain"
    /\ numThoughts \in 1..MaxThoughts
    /\ maxSteps = 1 /\ numBranches = 1 /\ maxDepth = 1 /\ nodes = <<>> /\ cursor = 0
    /\ Pending

\* TreeOfThoughtsAgent(model, registry, num_branches, max_depth) and the
\* entry of run, line 98: the root node
ToTInit ==
    /\ PIdle /\ RIdle /\ DIdle /\ SIdle /\ RunEntry
    /\ tools \in Registries
    /\ agent = "tot" /\ pc = "build"
    /\ numBranches \in 1..MaxBranches
    /\ maxDepth \in 1..MaxDepth
    /\ numBranches ^ maxDepth <= MaxLeaves
    /\ nodes = <<TreeNode("Query", 0, 0)>> /\ cursor = 1
    /\ maxSteps = 1 /\ numThoughts = 1
    /\ Pending

ReActNext ==
    \/ (ReActThink /\ UNCHANGED <<dvars, svars, pvars, rvars, cvars, tvars>>)
    \/ (ReActDecide /\ UNCHANGED <<dvars, svars, pvars, rvars, cvars, tvars>>)
    \/ (ReActAct /\ UNCHANGED <<dvars, svars, pvars, rvars, cvars, tvars>>)
    \/ (ReActSynth /\ UNCHANGED <<dvars, svars, pvars, rvars, cvars, tvars>>)

CoTNext ==
    \/ (CoTChain /\ UNCHANGED <<dvars, svars, pvars, rvars, tvars>>)
    \/ (CoTDecide /\ UNCHANGED <<dvars, svars, pvars, rvars, tvars>>)
    \/ (CoTAct /\ UNCHANGED <<dvars, svars, pvars, rvars, tvars>>)
    \/ (CoTSynth /\ UNCHANGED <<dvars, svars, pvars, rvars, tvars>>)

ToTNext ==
    \/ (ToTBuild /\ UNCHANGED <<dvars, svars, pvars, rvars>>)
    \/ (ToTEvaluate /\ UNCHANGED <<dvars, svars, pvars, rvars>>)
    \/ (ToTDecide /\ UNCHANGED <<dvars, svars, pvars, rvars>>)
    \/ (ToTAct /\ UNCHANGED <<dvars, svars, pvars, rvars>>)
    \/ (ToTSynth /\ UNCHANGED <<dvars, svars, pvars, rvars>>)

Fault == GenFault /\ UNCHANGED <<dvars, svars, pvars, rvars, cvars, tvars>>

SpecReAct == ReActInit /\ [][ReActNext \/ Fault]_vars

SpecCoT == CoTInit /\ [][CoTNext \/ Fault]_vars

SpecToT == ToTInit /\ [][ToTNext \/ Fault]_vars

\* run, lines 98-106: the build, evaluate and select phases of a run
ToTSearchNext ==
    \/ (ToTBuild /\ UNCHANGED <<dvars, svars, pvars, rvars>>)
    \/ (ToTEvaluate /\ UNCHANGED <<dvars, svars, pvars, rvars>>)

SpecToTSearch == ToTInit /\ [][ToTSearchNext \/ Fault]_vars

\* A run of any of the three strategies; the branching search with
\* num_branches within the bound and max_depth = 1
Init == ReActInit \/ CoTInit \/ (ToTInit /\ maxDepth = 1)

Next == ReActNext \/ CoTNext \/ ToTNext \/ Fault

Spec == Init /\ [][Next]_vars

RegInit ==
    /\ PIdle /\ AIdle /\ RIdle /\ DIdle /\ SIdle /\ tools = Register(EmptyRegistry, "web_search", 1)
    /\ Pending

RegNext == RegLoadTools \/ RegRegister \/ RegClear \/ RegGetTool \/ RegExecuteTool

SpecRegistry == RegInit /\ [][RegNext]_vars

-----------------------------------------------------------------------------
(* Two runs of one TreeOfThoughtsAgent on the same query, with a model that *)
(* returns a fixed text for every prompt and a registry whose tools give a  *)
(* fixed result for every invocation.  The text of a prompt is fixed when   *)
(* the prompt is asked for the first time.                                  *)

\* path_str: the steps of a path, one per line
PathStr(path) == JoinSteps([i \in 1..Len(path) |-> <<path[i]>>])

\* _generate_branches, lines 155-175: the prompt
BranchPrompt(q, path, b) ==
    <<"Original question:">> \o q \o <<"Current reasoning path:">> \o PathStr(path)
        \o <<"Generate", ToString(b), "For depth", ToString(Len(path))>>

\* The evaluation criteria of the agent, joined
CriteriaStr == "Feasibility, Effectiveness, Efficiency, Risk"

\* A prompt that carries the number of the run it is asked in
EvalPromptStamped(q, path) ==
    <<"Run", IF earlier.some THEN "2" ELSE "1", "Original question:">> \o q
        \o <<"Reasoning path to evaluate:">> \o PathStr(path)

\* _evaluate_single_path, lines 260-279: the prompt
EvalPrompt(q, path) ==
    <<"Original question:">> \o q \o <<"Reasoning path to evaluate:">> \o PathStr(path)
        \o <<"Evaluate this path based on:", CriteriaStr>>

\* get_tool_descriptions joined: one line per registered name
RECURSIVE ToolsList(_)
ToolsList(names) ==
    IF names = {} THEN <<>>
    ELSE LET n == CHOOSE x \in names : TRUE IN <<"- " \o n>> \o ToolsList(names \ {n})

\* _execute_if_needed, lines 321-342: the prompt
DecidePromptToT(q, path, reg) ==
    <<"Query:">> \o q \o <<"Best reasoning path selected:">> \o PathStr(path)
        \o <<"Available tools:">> \o ToolsList(DOMAIN reg)

\* model.generate of the mocked model: the call just made got the text fixed
\* for its prompt
Generate(prompt) ==
    LET text == calls'[Len(calls')].text
    IN  /\ prompt \in DOMAIN provider => text = provider[prompt]
        /\ provider' = IF prompt \in DOMAIN provider THEN provider
                        ELSE provider @@ (prompt :> text)

\* tool.execute of the fixed registry: the invocation just made, if any,
\* gave the observation fixed for it
Execute ==
    IF invocations' = invocations THEN UNCHANGED capability
    ELSE LET inv == invocations'[Len(invocations')]
         IN  /\ inv \in DOMAIN capability => observation' = capability[inv]
             /\ capability' = IF inv \in DOMAIN capability THEN capability
                               ELSE capability @@ (inv :> observation')

\* The caller calls run with the same query once more: line 98, a new root,
\* and the locals of run at their entry values
RunAgain ==
    /\ agent = "tot" /\ pc \in {"done", "raised"} /\ ~earlier.some
    /\ earlier' = [some |-> TRUE, nodes |-> nodes, best |-> best, result |-> result,
                    observation |-> observation]
    /\ pc' = "build" /\ nodes' = <<TreeNode("Query", 0, 0)>> /\ cursor' = 1
    /\ step' = 1 /\ history' = <<>> /\ action' = EmptyDict /\ observation' = NoObservation
    /\ calls' = <<>> /\ invocations' = <<>> /\ synthPrompt' = <<>> /\ result' = Running
    /\ chain' = <<>> /\ stack' = <<>> /\ evaluated' = <<>> /\ best' = NoBest
    /\ UNCHANGED <<agent, maxSteps, numThoughts, numBranches, maxDepth, provider,
                   capability, other, pvars, rvars, svars>>

TwiceNext ==
    \/ (ToTBuild /\ Generate(BranchPrompt(Query, GetPath(nodes, cursor), numBranches))
            /\ UNCHANGED <<capability, earlier, other, pvars, rvars, svars>>)
    \/ (ToTEvaluate
            /\ Generate(EvalPrompt(Query, GetPath(nodes,
                                      GetLeafNodes(nodes)[Len(evaluated) + 1])))
            /\ UNCHANGED <<capability, earlier, other, pvars, rvars, svars>>)
    \/ (ToTDecide /\ Generate(DecidePromptToT(Query, best.path, tools))
            /\ UNCHANGED <<capability, earlier, other, pvars, rvars, svars>>)
    \/ (ToTAct /\ Execute /\ UNCHANGED <<provider, earlier, other, pvars, rvars, svars>>)
    \/ (ToTSynth /\ Generate(synthPrompt')
            /\ UNCHANGED <<capability, earlier, other, pvars, rvars, svars>>)
    \/ RunAgain

\* The trees of the two-run development have at most MaxLeavesTwice leaves
MaxLeavesTwice == 2

\* The agent is bound to the registry that holds web_search
TwiceInit ==
    /\ ToTInit
    /\ numBranches ^ maxDepth <= MaxLeavesTwice
    /\ tools = Register(EmptyRegistry, "web_search", 1)

SpecToTTwice == TwiceInit /\ [][TwiceNext]_vars

-----------------------------------------------------------------------------
(* Two calls of run on one agent and one registry, interleaved at their     *)
(* generation and capability calls.  The variables of a run hold the locals *)
(* of the call that is executing; other holds those of the suspended call.  *)

\* run, react_agent.py line 20 and tot_agent.py line 98: a transcript and a
\* tree that are an attribute of the agent, seen by both calls
ResumeSharedOnAgent(saved, live) ==
    [saved EXCEPT !.history = live.history, !.nodes = live.nodes,
                  !.evaluated = live.evaluated]

\* run, react_agent.py line 20 and tot_agent.py line 98: the transcript, the
\* tree and everything else a call works on are locals of its own frame, so
\* a call resumes with what it had when it was suspended
Resume(saved, live) == saved

\* The scheduler suspends the executing call and resumes the other one
Switch ==
    /\ agent \in {"react", "tot"}
    /\ other.pc \notin {"done", "raised"}
    /\ LET r == Resume(other, RunLocals)
       IN  /\ other' = RunLocals
           /\ pc' = r.pc /\ step' = r.step /\ history' = r.history /\ action' = r.action
           /\ observation' = r.observation /\ calls' = r.calls
           /\ invocations' = r.invocations /\ synthPrompt' = r.synthPrompt
           /\ result' = r.result /\ chain' = r.chain /\ nodes' = r.nodes
           /\ stack' = r.stack /\ cursor' = r.cursor /\ evaluated' = r.evaluated
           /\ best' = r.best
    /\ UNCHANGED <<agent, maxSteps, numThoughts, numBranches, maxDepth, provider,
                   capability, earlier, pvars, rvars, svars>>

\* Two calls of ReActAgent.run with max_steps = 1, or the search phases of
\* two calls of TreeOfThoughtsAgent.run with max_depth = 1 and at most two
\* branches
ConcInit ==
    \/ (ReActInit /\ maxSteps = 1)
    \/ (ToTInit /\ maxDepth = 1 /\ numBranches <= 2)

ConcNext == ReActNext \/ ToTSearchNext \/ Fault \/ Switch

SpecConcurrent == ConcInit /\ [][ConcNext]_vars

-----------------------------------------------------------------------------
(* SimpleAgent (agents/simple_agent.py).                                    *)

\* The texts of the tool-planning call; "tp=" is the key "tool_params"
PlanTexts ==
    { <<"w">>,
      <<"{", "nt=false", "}">>,
      <<"{", "nt=true", "tn=web_search", "tp=", "{", "q=python tutorials", "}", "}">>,
      <<FENCE, "json", WS, "{", "nt=true", "tn=web_search", "}", WS, FENCE>>,
      <<"w", FENCE, WS, "{", "nt=true", "tn=nope", "}", FENCE, "w">>,
      <<"{", "nt=true", "tn=web_search", "tp=null", "}">>,
      <<"{", "nt=true", "tn=web_search", "tp=str", "}">>,
      <<"{", "nt=true", "}">>,
      <<"[", "]">>,
      <<"w", "{", "nt=true", "tn=web_search", "}">> }

\* "```json" in s: a fence marker directly followed by json
HasFenceJson(s) == \E i \in 1..(Len(s) - 1) : s[i] = FENCE /\ s[i + 1] = "json"

\* _plan_action, lines 174-178: the text between the first fence (with its
\* json tag, when one is there) and the next fence
PlanClean(text) ==
    LET r == Strip(text)
    IN  IF HasFenceJson(r)
        THEN LET i == CHOOSE k \in 1..(Len(r) - 1) :
                        /\ r[k] = FENCE /\ r[k + 1] = "json"
                        /\ \A j \in 1..(k - 1) : ~(r[j] = FENCE /\ r[j + 1] = "json")
             IN  Split(SubSeqFrom(r, i + 2))[1]
        ELSE IF Has(r, FENCE) THEN Split(r)[2]
        ELSE r

\* The member tokens of the planning object, read with the key tool_params
\* where the other strategies have parameters
PlanToken(tok) ==
    CASE tok = "tp=" -> "pm="
      [] tok = "tp=null" -> "pm=null"
      [] tok = "tp=str" -> "pm=str"
      [] tok \in {"pm=", "pm=null", "pm=str"} -> "w"
      [] OTHER -> tok

\* _plan_action, lines 180-197: json.loads and the three .get; kind is
\* "dict", "nondict" (decision.get raises AttributeError) or "error"
\* (JSONDecodeError, caught: no tool)
PlanDecision(text) ==
    LET c == Strip(PlanClean(text))
        j == JsonLoads([i \in 1..Len(c) |-> PlanToken(c[i])])
    IN  IF j.ok THEN [kind |-> "dict", d |-> j.d]
        ELSE IF JsonLoadsList(c).ok THEN [kind |-> "nondict", d |-> EmptyDict]
        ELSE [kind |-> "error", d |-> EmptyDict]

\* run, lines 113-116: an exception that is re-raised to the caller
SimpleCatchReraise(exc) == RunRaised(exc)

\* run, lines 113-116: except Exception returns the apology
SimpleCatch(exc) == RunReturned(<<"I apologize, but I encountered an error:", exc>>)

\* How a run that ended with r stands
EndOf(r) == IF r.status = "raised" THEN "raised" ELSE "done"

\* A test that never finds the registry empty
NoToolsNever(reg) == FALSE

\* _plan_action, lines 130-135: if not tool_descriptions
NoTools(reg) == DOMAIN GetToolDescriptions(reg) = {}

\* run, line 94: _plan_action up to the test on needs_tool and tool_name
SimplePlan ==
    /\ agent = "simple" /\ pc = "plan"
    /\ IF NoTools(tools)
       THEN pc' = "direct" /\ UNCHANGED <<calls, action, result>>
       ELSE \E text \in PlanTexts :
            LET p == PlanDecision(text)
            IN  /\ calls' = Append(calls, Call("PLAN", text))
                /\ CASE p.kind = "nondict" ->
                          /\ result' = SimpleCatch("AttributeError")
                          /\ pc' = EndOf(result')
                          /\ UNCHANGED action
                     [] p.kind = "error" ->
                          pc' = "direct" /\ UNCHANGED <<action, result>>
                     [] OTHER ->
                          IF Truthy(p.d.needs_tool) /\ Truthy(p.d.tool_name)
                          THEN action' = p.d /\ pc' = "exec" /\ UNCHANGED result
                          ELSE pc' = "direct" /\ UNCHANGED <<action, result>>
    /\ UNCHANGED <<agent, maxSteps, step, history, observation, invocations, synthPrompt>>

\* What an invocation gave, as the log of calls shows it
Outcome(r) ==
    IF r.kind = "raise" THEN <<"raised", r.exc>>
    ELSE IF r.success THEN <<"ok">> ELSE <<"failed", r.error>>

\* run, lines 99-105: _execute_tool, and _generate_response_with_tool up to
\* its generation call
SimpleExec ==
    /\ agent = "simple" /\ pc = "exec"
    /\ \E beh \in ToolBehaviours :
        LET params == IF action.parameters.t \in {"absent", "null"} THEN VMap({})
                      ELSE action.parameters
        IN  IF params.t # "map"
            THEN /\ result' = SimpleCatch("TypeError")
                 /\ pc' = EndOf(result')
                 /\ UNCHANGED <<calls, invocations, observation>>
            ELSE LET r == ExecuteTool(tools, action.tool_name, params.m, beh)
                 IN  /\ calls' = Append(calls, Call("INVOKE", Outcome(r)))
                     /\ invocations' = Append(invocations,
                                              Invocation(action.tool_name, params.m))
                     /\ IF r.kind = "raise"
                        THEN /\ result' = SimpleCatch(r.exc)
                             /\ pc' = EndOf(result')
                             /\ UNCHANGED observation
                        ELSE IF ~r.success
                        THEN /\ result' = RunReturned(<<"I tried to use", action.tool_name.s,
                                                        "but encountered an error:", r.error>>)
                             /\ pc' = "done"
                             /\ UNCHANGED observation
                        ELSE /\ observation' = Obs(FormatToT(r))
                             /\ pc' = "respond"
                             /\ UNCHANGED result
    /\ UNCHANGED <<agent, maxSteps, step, history, action, synthPrompt>>

\* _generate_response_with_tool, lines 282-288, and _generate_direct_response:
\* the generation call returns, or raises and is caught by run
SimpleAnswer ==
    /\ agent = "simple" /\ pc \in {"respond", "direct"}
    /\ LET kind == IF pc = "respond" THEN "RESPOND" ELSE "DIRECT"
       IN  \/ \E text \in AnswerTexts :
                /\ calls' = Append(calls, Call(kind, text))
                /\ result' = RunReturned(Strip(text))
           \/ /\ calls' = Append(calls, Call(kind, FaultText))
              /\ result' = SimpleCatch("GenerationFault")
    /\ pc' = EndOf(result')
    /\ UNCHANGED <<agent, maxSteps, step, history, action, observation, invocations,
                   synthPrompt>>

\* The planning generation call raises and is caught by run
SimplePlanFault ==
    /\ agent = "simple" /\ pc = "plan" /\ ~NoTools(tools)
    /\ calls' = Append(calls, Call("PLAN", FaultText))
    /\ result' = SimpleCatch("GenerationFault")
    /\ pc' = EndOf(result')
    /\ UNCHANGED <<agent, maxSteps, step, history, action, observation, invocations,
                   synthPrompt>>

\* SimpleAgent(model, registry) and the entry of run
SimpleInit ==
    /\ PIdle /\ RIdle /\ DIdle /\ SIdle /\ RunEntry
    /\ tools \in Registries \cup {Register(Register(EmptyRegistry, "web_search", 1),
                                            "calendar", 1)}
    /\ agent = "simple" /\ pc = "plan"
    /\ maxSteps = 1 /\ numThoughts = 1 /\ numBranches = 1 /\ maxDepth = 1
    /\ nodes = <<>> /\ cursor = 0
    /\ Pending

SimpleNext ==
    \/ (SimplePlan /\ UNCHANGED <<dvars, svars, pvars, rvars, cvars, tvars>>)
    \/ (SimplePlanFault /\ UNCHANGED <<dvars, svars, pvars, rvars, cvars, tvars>>)
    \/ (SimpleExec /\ UNCHANGED <<dvars, svars, pvars, rvars, cvars, tvars>>)
    \/ (SimpleAnswer /\ UNCHANGED <<dvars, svars, pvars, rvars, cvars, tvars>>)

SpecSimple == SimpleInit /\ [][SimpleNext]_vars

-----------------------------------------------------------------------------
(* Parser development: the parsers applied to generated texts.              *)

\* Bounds of the generated texts
MaxProse == 1

\* Bare decision objects the generator may write
ObjBodies ==
    { <<"nt=false">>,
      <<"nt=true", "tn=web_search">>,
      <<"nt=true", "tn=web_search", "pm=", "{", "q=python tutorials", "}">>,
      <<"nt=true", "tn=web_search", "pm=", "{", "q=json tutorials", "}">>,
      <<"nt=true", "tn=nope", "pm=", "{", "}">>,
      <<"nt=yes", "tn=web_search">>,
      <<"nt=true">>,
      <<"nt=true", "tn=web_search", "pm=str">>,
      <<"nt=true", "tn=null", "pm=null">>,
      <<"w">>,
      <<>> }

Objects == { <<"{">> \o b \o <<"}">> : b \in ObjBodies }

\* Prose without braces or fences, up to MaxProse words
RECURSIVE ProseUpTo(_)
ProseUpTo(n) ==
    IF n = 0 THEN {<<>>}
    ELSE ProseUpTo(n - 1) \cup
         { p \o <<t>> : p \in ProseUpTo(n - 1), t \in {"w", "json", WS} }

\* Prose that itself holds a brace
BraceProse == { <<"w", "{", "w", "}">>, <<"{">>, <<"}">> }

Wrappings == {"bare", "fence", "fencejson"}

Wrap(kind, pre, obj, post) ==
    CASE kind = "bare" -> pre \o obj \o post
      [] kind = "fence" -> pre \o <<FENCE, WS>> \o obj \o <<WS, FENCE>> \o post
      [] kind = "fencejson" -> pre \o <<FENCE, "json", WS>> \o obj \o <<WS, FENCE>> \o post

\* Texts with no "{" ... "}" span at all
SpanlessTexts ==
    { <<>>, <<"w">>, <<"w", "w">>, <<"}", "w", "{">>, <<"{", "nt=true">>,
      <<FENCE, "json", WS, "w", FENCE>>, <<"nt=true", "}">> }

PInit ==
    /\ AIdle /\ RIdle /\ DIdle /\ SIdle /\ tools = EmptyRegistry
    /\ Pending
    /\ pdone = FALSE
    /\ pout = [react |-> NoDecision, cot |-> NoDecision, tot |-> NoDecision,
               bare |-> NoDecision, baretot |-> NoDecision]
    /\ \E kind \in Wrappings, obj \in Objects,
          pre \in ProseUpTo(MaxProse) \cup BraceProse,
          post \in ProseUpTo(MaxProse) \cup BraceProse :
            ptext = [kind |-> kind, pre |-> pre, obj |-> obj, post |-> post]

PText == Wrap(ptext.kind, ptext.pre, ptext.obj, ptext.post)

\* Apply each strategy's parser to the text, and to the bare object
ParseStep ==
    /\ ~pdone
    /\ pdone' = TRUE
    /\ pout' = [react |-> DecideAction(PText), cot |-> DecideAction(PText),
                tot |-> DecideActionToT(PText),
                bare |-> DecideAction(ptext.obj),
                baretot |-> DecideActionToT(ptext.obj)]
    /\ UNCHANGED <<ptext, dvars, svars, rvars, avars, cvars, tvars>>

PNext == ParseStep

SpecParser == PInit /\ [][PNext]_vars

-----------------------------------------------------------------------------
(* Properties of the registry.                                              *)

\* C2: invoking a capability by a name that is not registered yields a result
\* with success = false (the call returns, it does not raise).
C2_UnregisteredNameReturnsFailure ==
    (rlast.op = "execute_tool" /\ ~Registered(tools, rlast.name))
        => (rlast.out.kind = "return" /\ rlast.out.success = FALSE)

\* C3: when the invoked capability's implementation raises, the invocation
\* returns a result with success = false carrying a message, and raises nothing.
C3_CapabilityFaultReturnsFailure ==
    (rlast.op = "execute_tool" /\ Registered(tools, rlast.name) /\ rlast.beh = "raise")
        => (rlast.out.kind = "return" /\ rlast.out.success = FALSE
            /\ rlast.out.error # "")

-----------------------------------------------------------------------------
(* Properties of ReActAgent.run.                                            *)

CountKind(k) == Cardinality({i \in DOMAIN calls : calls[i].kind = k})
GenCalls == Cardinality({i \in DOMAIN calls : calls[i].kind # "INVOKE"})
ActedIterations == Cardinality({i \in DOMAIN history : history[i].k = "Observation"})
LastCall == calls[Len(calls)]
CallKinds == [i \in DOMAIN calls |-> calls[i].kind]

\* C1: for every step bound N and every sequence of generated texts, a ReAct
\* run makes at most N THINK calls and at most 2N+1 generation calls, a
\* returned run ends with exactly one synthesis call whose stripped text is
\* the result, and after N iterations that each acted the run synthesizes
\* from the accumulated transcript instead of failing.
C1_ReActBoundedThenSynthesis ==
    agent = "react" =>
        /\ CountKind("THINK") <= maxSteps
        /\ GenCalls <= 2 * maxSteps + 1
        /\ CountKind("SYNTH") <= 1
        /\ result.status = "returned" =>
              /\ CountKind("SYNTH") = 1
              /\ LastCall.kind = "SYNTH"
              /\ result.value = Strip(LastCall.text)
        /\ result.status = "raised" => LastCall.text = FaultText
        /\ ActedIterations = maxSteps => pc \in {"synth", "done", "raised"}
        /\ (ActedIterations = maxSteps /\ pc = "done") =>
              /\ result.status = "returned"
              /\ synthPrompt = FinalPromptReAct(Query, history)
              /\ Len(history) = 3 * maxSteps

\* C1 witness: a run of the largest bound that acted in every iteration and
\* returned after 2N+1 generation calls
C1_Witness ==
    /\ agent = "react" /\ pc = "done" /\ maxSteps = MaxSteps
    /\ ActedIterations = maxSteps
    /\ CountKind("THINK") = maxSteps
    /\ GenCalls = 2 * maxSteps + 1
    /\ result.status = "returned"

\* The first THINK text holds no completion phrase and the first DECIDE text
\* is a decision object whose needs_tool is false
FirstDecideSignalsNoAction ==
    /\ agent = "react" /\ Len(calls) >= 2
    /\ calls[1].kind = "THINK" /\ ~IsComplete(calls[1].text)
    /\ calls[2].kind = "DECIDE" /\ Has(calls[2].text, "nt=false")

\* C9: in a ReAct run whose first thought holds no completion phrase and
\* whose DECIDE output signals no action, the calls are exactly THINK, DECIDE,
\* synthesis in that order and the registry is never invoked.
C9_NoActionThreeCalls ==
    FirstDecideSignalsNoAction =>
        /\ invocations = <<>>
        /\ Len(calls) <= 3
        /\ Len(calls) = 2 => pc = "synth"
        /\ Len(calls) = 3 => calls[3].kind = "SYNTH" /\ pc \in {"done", "raised"}
        /\ pc = "done" => CallKinds = <<"THINK", "DECIDE", "SYNTH">>

\* C9 witness: such a run has returned
C9_Witness ==
    /\ FirstDecideSignalsNoAction /\ pc = "done" /\ result.status = "returned"
    /\ CallKinds = <<"THINK", "DECIDE", "SYNTH">>

\* The DECIDE text that asks for web_search with query "python tutorials"
WebSearchSignal ==
    <<"{", "nt=true", "tn=web_search", "pm=", "{", "q=python tutorials", "}", "}">>
SignalledInvocation == Invocation(VStr("web_search"), {"q=python tutorials"})

\* Every DECIDE call of the ReAct run returned that text, and there is one
ProviderSignalsWebSearch ==
    /\ agent = "react" /\ CountKind("DECIDE") >= 1
    /\ \A i \in DOMAIN calls : calls[i].kind = "DECIDE" => calls[i].text = WebSearchSignal

\* C10 as stated: in a ReAct run whose provider signals web_search with
\* query "python tutorials" at DECIDE, exactly one registry invocation occurs,
\* with exactly those arguments, and its observation is in the final prompt.
C10_ExactlyOneInvocation ==
    (ProviderSignalsWebSearch /\ pc = "done") =>
        /\ Len(invocations) = 1
        /\ invocations[1] = SignalledInvocation
        /\ Contains(synthPrompt, observation.v)

\* C10 amended: in such a run every DECIDE call is followed by exactly one
\* registry invocation with exactly those arguments (one invocation when the
\* run makes one DECIDE call, never more than N), and every observation
\* produced is contained in the prompt of the final answer generation call.
C10_OneInvocationPerDecide ==
    ProviderSignalsWebSearch =>
        /\ \A i \in DOMAIN invocations : invocations[i] = SignalledInvocation
        /\ Len(invocations) = CountKind("DECIDE") - (IF pc = "act" THEN 1 ELSE 0)
        /\ Len(invocations) <= maxSteps
        /\ pc = "done" =>
              /\ ActedIterations = Len(invocations)
              /\ \A i \in DOMAIN history :
                    history[i].k = "Observation" => Contains(synthPrompt, history[i].v)
              /\ CountKind("DECIDE") = 1 => Len(invocations) = 1

\* C10 witness: such a run invoked web_search and returned with the
\* observation in its final prompt
C10_Witness ==
    /\ ProviderSignalsWebSearch /\ pc = "done" /\ result.status = "returned"
    /\ Registered(tools, VStr("web_search"))
    /\ Len(invocations) >= 1 /\ invocations[1] = SignalledInvocation
    /\ observation.some /\ observation.v # <<>>
    /\ Contains(synthPrompt, observation.v)

-----------------------------------------------------------------------------
(* Properties of the three strategies together.                             *)

\* The decision of the run names a capability the registry does not hold
NamesUnregistered ==
    /\ agent # "none" /\ action.tool_name.t = "str"
    /\ ~Registered(tools, action.tool_name)

\* C4: in each strategy, when the parsed decision names a capability that is
\* not registered, the run does not abort: it is never ended by anything but
\* a fault of a generation call.
C4_UnregisteredNameDoesNotAbort ==
    (NamesUnregistered /\ result.status = "raised")
        => result.value = <<"GenerationFault">>

\* C5: for every strategy, run either returns an answer or raises only
\* because a generation call raised.
C5_RaisesOnlyOnGenerationFault ==
    (agent # "none" /\ pc = "raised")
        => (result = RunRaised("GenerationFault") /\ LastCall.text = FaultText)

\* No opening brace of the text is followed by a closing brace
NoBraceSpan(text) ==
    ~ \E i, j \in DOMAIN text : i < j /\ text[i] = "{" /\ text[j] = "}"

\* C7: for every strategy, a DECIDE call that returns a text with no brace
\* span leaves the run not raised, without a registry invocation in that
\* step, and at its synthesis call, which is the next call it makes.
C7_NoSpanNoAction ==
    [][ /\ (/\ pc \in {"decide", "totdecide"}
            /\ Len(calls') > Len(calls)
            /\ calls'[Len(calls) + 1].text # FaultText
            /\ NoBraceSpan(calls'[Len(calls) + 1].text))
           => (/\ pc' = "synth"
               /\ result' = Running
               /\ invocations' = invocations
               /\ Len(calls') = Len(calls) + 1)
        /\ pc = "synth"
           => (/\ Len(calls') = Len(calls) + 1
               /\ calls'[Len(calls')].kind = "SYNTH"
               /\ invocations' = invocations) ]_vars

\* C7 witness: a branching-search run whose DECIDE text had no brace span
\* returned without an invocation
C7_Witness ==
    /\ agent = "tot" /\ pc = "done" /\ result.status = "returned"
    /\ invocations = <<>>
    /\ \E i \in DOMAIN calls : calls[i].kind = "DECIDE" /\ NoBraceSpan(calls[i].text)

\* The shape a decision object must have: a boolean needs_tool and, when it
\* is true, a tool_name and parameters that are a map or missing
ShapeValid(d) ==
    /\ d.needs_tool.t = "bool"
    /\ d.needs_tool = VTrue =>
          /\ d.tool_name.t # "absent"
          /\ d.parameters.t \in {"absent", "map"}

\* C8: a decoded decision object whose needs_tool is not a boolean, or is
\* true with the tool_name missing or with parameters that are not a map, is
\* treated as no capability needed: the run never goes on to act on it.
C8_InvalidShapeIsNoAction ==
    (agent # "none" /\ pc = "act") => ShapeValid(action)

-----------------------------------------------------------------------------
(* Properties of the decision parsers.                                      *)

\* The bare object is a valid decision object
ValidDecisionObject(obj) ==
    LET j == JsonLoads(obj) IN j.ok /\ ShapeValid(j.d)

BraceFree(text) == ~Has(text, "{") /\ ~Has(text, "}")

\* C6: at every decision point, a valid decision object wrapped in leading
\* and trailing prose or in one fenced block, with or without the json tag,
\* parses to the same decision as the bare object.
C6_WrappedParsesAsBare ==
    (/\ pdone /\ agent = "none" /\ rlast = NoCall
     /\ ValidDecisionObject(ptext.obj)
     /\ BraceFree(ptext.pre) /\ BraceFree(ptext.post))
        => /\ pout.react = pout.bare
           /\ pout.cot = pout.bare
           /\ pout.tot = pout.baretot

\* The text holds one of the fixed completion phrases, in any letter case
HoldsCompletionPhrase(text) ==
    \E i \in DOMAIN text :
        Lower(text[i]) \in {"have enough", "can now answer", "task complete", "have the answer"}

\* C11: in a ReAct run, after a THINK call whose text holds a completion
\* phrase (in any letter case) the only call that follows is the synthesis
\* call, so no DECIDE call and no registry invocation, and the stripped
\* utterance is in the transcript of the synthesis prompt.
C11_CompletionPhraseGoesToSynthesis ==
    agent = "react" =>
        \A i \in DOMAIN calls :
            (calls[i].kind = "THINK" /\ HoldsCompletionPhrase(calls[i].text)) =>
                /\ pc \in {"synth", "done", "raised"}
                /\ \A j \in DOMAIN calls : j > i => calls[j].kind = "SYNTH"
                /\ Len(calls) <= i + 1
                /\ history[Len(history)] = [k |-> "Thought", v |-> Strip(calls[i].text)]
                /\ pc = "done" =>
                      Contains(synthPrompt, <<"Thought:">> \o Strip(calls[i].text))

\* C11 witness: a run that acted once, then thought a completion phrase in
\* capital letters and returned
C11_Witness ==
    /\ agent = "react" /\ pc = "done" /\ result.status = "returned"
    /\ Len(invocations) = 1
    /\ \E i \in DOMAIN calls :
        /\ i > 1 /\ calls[i].kind = "THINK" /\ calls[i].text = <<"TASK COMPLETE">>
        /\ Contains(synthPrompt, <<"Thought:", "TASK COMPLETE">>)

-----------------------------------------------------------------------------
(* Properties of CoTAgent.run.                                              *)

\* s is an initial part of t
IsPrefix(s, t) == Len(s) <= Len(t) /\ SubSeq(t, 1, Len(s)) = s

\* The run has ended and every generation call it made returned a text
EndedWithoutGenerationFault ==
    /\ pc \in {"done", "raised"}
    /\ \A i \in DOMAIN calls : calls[i].text # FaultText

\* C12: for any generator outputs a CoT run goes through CHAIN, DECIDE,
\* optional ACT and SYNTHESIZE once each and in that order: when it has
\* ended it made exactly one CHAIN call, one DECIDE call, at most one registry
\* invocation and exactly one synthesis call, 2 or 3 generation calls in all.
C12_CoTPhasesOnceInOrder ==
    agent = "cot" =>
        /\ \/ IsPrefix(CallKinds, <<"CHAIN", "DECIDE", "SYNTH">>)
           \/ IsPrefix(CallKinds, <<"CHAIN", "DECIDE", "INVOKE", "SYNTH">>)
        /\ EndedWithoutGenerationFault =>
              /\ CountKind("CHAIN") = 1
              /\ CountKind("DECIDE") = 1
              /\ CountKind("INVOKE") <= 1
              /\ CountKind("SYNTH") = 1
              /\ GenCalls \in {2, 3}

-----------------------------------------------------------------------------
(* Properties of TreeOfThoughtsAgent.run.                                   *)

\* The build phase is over and the run went on
BuildComplete == agent = "tot" /\ pc \in {"evaluate", "totdecide", "act", "synth", "done"}

NodeIds == [i \in 1..Len(nodes) |-> i]

\* The nodes of depth < D, in the order they were created and expanded
ExpandedNodes == SelectSeq(NodeIds, LAMBDA i : nodes[i].depth < maxDepth)

\* The generation calls of the build phase, in order
BranchCalls == SelectSeq(calls, LAMBDA c : c.kind = "BRANCH")

\* The contents of the children of node i, in order
ChildrenOf(i) ==
    LET ids == SelectSeq(NodeIds, LAMBDA j : nodes[j].parent = i)
    IN  [k \in 1..Len(ids) |-> nodes[ids[k]].content]

\* The candidates a branch response yields: the items of its list, none when
\* it has no list
CandidatesOf(text) ==
    IF \E i, j \in DOMAIN text : i < j /\ text[i] = "[" /\ text[j] = "]"
    THEN SelectSeq(text, LAMBDA x : x \in {"b1", "b2", "b3"})
    ELSE <<>>

\* C13: after the build phase every node of depth < D has the candidates of
\* its response as children when there are between 1 and B of them, exactly B
\* placeholder children when the response yields none (no list or an empty
\* list), and so at least one child.
C13_EveryInnerNodeHasChildren ==
    BuildComplete =>
        /\ Len(BranchCalls) = Len(ExpandedNodes)
        /\ \A k \in 1..Len(ExpandedNodes) :
            LET c == CandidatesOf(BranchCalls[k].text)
                ch == ChildrenOf(ExpandedNodes[k])
            IN  /\ (Len(c) >= 1 /\ Len(c) <= numBranches) => ch = c
                /\ Len(c) = 0 => ch = [i \in 1..numBranches |-> "Approach " \o ToString(i)]
                /\ Len(ch) >= 1 /\ Len(ch) <= numBranches

\* b^1 + b^2 + ... + b^d
RECURSIVE SumOfPowers(_, _)
SumOfPowers(b, d) == IF d = 0 THEN 0 ELSE b ^ d + SumOfPowers(b, d - 1)

\* C14: for every branch factor B and depth D and every sequence of generated
\* texts, a branching-search run makes at most (B^1 + ... + B^D) + B^D + 2
\* generation calls: at most B^1 + ... + B^D in the build phase, at most B^D
\* in the evaluate phase, one decision call and one synthesis call.
C14_ToTGenerationCallBound ==
    agent = "tot" =>
        /\ GenCalls <= SumOfPowers(numBranches, maxDepth) + numBranches ^ maxDepth + 2
        /\ CountKind("BRANCH") <= SumOfPowers(numBranches, maxDepth)
        /\ CountKind("EVAL") <= numBranches ^ maxDepth
        /\ CountKind("DECIDE") <= 1
        /\ CountKind("SYNTH") <= 1
        /\ GenCalls = CountKind("BRANCH") + CountKind("EVAL") + CountKind("DECIDE")
                        + CountKind("SYNTH")

\* C14 witness: a run with B = 2 and D = 2 that built the full tree, made 3
\* branch calls, 4 evaluation calls, the decision and the synthesis call
C14_Witness ==
    /\ agent = "tot" /\ pc = "done" /\ numBranches = 2 /\ maxDepth = 2
    /\ CountKind("BRANCH") = 3 /\ CountKind("EVAL") = 4
    /\ GenCalls = 9

\* The generation calls of the evaluate phase, in order
EvalCalls == SelectSeq(calls, LAMBDA c : c.kind = "EVAL")

\* The evaluation text yields a valid numeric score: it holds an object that
\* decodes and has a number as its score
YieldsNumericScore(text) ==
    /\ \E i, j \in DOMAIN text : i < j /\ text[i] = "{" /\ text[j] = "}"
    /\ \E i \in DOMAIN text : text[i] \in {"sc=30", "sc=70", "sc=95", "sc=110"}
    /\ ~Has(text, "w")

\* C15: in the evaluate phase a leaf whose evaluation text yields no valid
\* numeric score (no object, an object that does not decode, no score, a
\* score that is no number) gets the score 5.0, and the run is not ended by
\* the evaluate phase unless the evaluation call itself raised.
C15_InvalidScoreGetsNeutral ==
    agent = "tot" =>
        /\ \A k \in 1..Len(EvalCalls) :
            (EvalCalls[k].text # FaultText /\ ~YieldsNumericScore(EvalCalls[k].text)) =>
                \E n \in DOMAIN evaluated :
                    /\ evaluated[n].node = GetLeafNodes(nodes)[k]
                    /\ evaluated[n].score = [t |-> "num", n |-> 50, s |-> ""]
        /\ (pc = "raised" /\ LastCall.kind = "EVAL") => LastCall.text = FaultText

\* The leaves in construction order, as _get_leaf_nodes lists them
LeafOrder == GetLeafNodes(nodes)

\* The position of a leaf in construction order
LeafRank(leaf) == CHOOSE k \in 1..Len(LeafOrder) : LeafOrder[k] = leaf

\* The select phase has returned: the run is at or past the decision call
Selected == agent = "tot" /\ pc \in {"totdecide", "totsynth", "done"}

\* C16: the select phase returns an evaluated path whose score is the maximum
\* over all evaluated leaf paths, whatever order the leaves were constructed
\* in; among the paths tied at the maximum it returns the one whose leaf was
\* constructed first.
C16_SelectsMaximumFirstOnTies ==
    Selected =>
        /\ Len(evaluated) = Len(LeafOrder)
        /\ \E n \in DOMAIN evaluated : evaluated[n] = best
        /\ \A n \in DOMAIN evaluated :
            /\ evaluated[n].score.n <= best.score.n
            /\ evaluated[n].score.n = best.score.n =>
                    LeafRank(best.node) <= LeafRank(evaluated[n].node)

\* C16 witness: three leaves scored 3.0, 9.5 and 9.5 in construction order;
\* the second leaf, the first of the two tied at the maximum, is selected
C16_Witness ==
    /\ Selected
    /\ Len(LeafOrder) = 3
    /\ \E a, b, c \in DOMAIN evaluated :
        /\ evaluated[a].node = LeafOrder[1] /\ evaluated[a].score.n = 30
        /\ evaluated[b].node = LeafOrder[2] /\ evaluated[b].score.n = 95
        /\ evaluated[c].node = LeafOrder[3] /\ evaluated[c].score.n = 95
    /\ best.node = LeafOrder[2]

-----------------------------------------------------------------------------
(* Properties of two runs with a mocked model.                              *)

\* The second of the two runs has ended
SecondRunEnded == agent = "tot" /\ earlier.some /\ pc \in {"done", "raised"}

\* C17: with a model that returns a fixed text for every prompt and a fixed
\* registry, two runs of one branching-search agent (same B, D and criteria)
\* on the same query build the same tree, select the same path and end the
\* same way: the same final answer, or the same error.
C17_TwoRunsAgree ==
    SecondRunEnded =>
        /\ nodes = earlier.nodes
        /\ best = earlier.best
        /\ observation = earlier.observation
        /\ result = earlier.result

\* C17 witness: the second run of an agent with two branches has built a tree
\* of two leaves with different scores, invoked a tool and returned an answer
C17_Witness ==
    /\ SecondRunEnded /\ pc = "done"
    /\ numBranches = 2 /\ Len(nodes) = 3
    /\ evaluated[1].score.n > evaluated[2].score.n
    /\ Len(invocations) = 1
    /\ observation.some
    /\ result.status = "returned"

\* C18: in every strategy a failed capability invocation (here: the name is
\* not registered) is converted into a non-empty observation text that
\* carries the error, the run goes on, and the observation is part of the
\* synthesis prompt.
C18_FailedInvocationBecomesObservation ==
    [][ /\ (agent # "none" /\ pc = "act" /\ NamesUnregistered) =>
                /\ pc' # "raised"
                /\ ObsTruthy(observation')
                /\ observation'.v[1] \in {"Failed:", "Error:"}
        /\ (agent # "none" /\ pc = "synth" /\ pc' = "done" /\ ObsTruthy(observation)) =>
                Contains(synthPrompt', observation.v)
      ]_vars

\* The positions in calls of the generation calls that raised
FaultedCalls == {k \in 1..Len(calls) : calls[k].text = FaultText}

\* C19: when a generation call raises in any phase of any strategy, that call
\* is the last call of the run: the provider is not called again, no later
\* phase runs, and run ends raising the generation fault.
C19_GenerationFaultEndsRun ==
    agent # "none" =>
        \A k \in FaultedCalls :
            /\ k = Len(calls)
            /\ pc = "raised"
            /\ result = RunRaised("GenerationFault")

\* C19 witness: a branching-search run with two leaves whose first evaluation
\* call raised: the second leaf is never evaluated and nothing is selected
C19_Witness ==
    /\ agent = "tot" /\ pc = "raised"
    /\ Len(GetLeafNodes(nodes)) = 2
    /\ CallKinds = <<"BRANCH", "EVAL">>
    /\ FaultedCalls = {2}
    /\ evaluated = <<>> /\ best = NoBest

-----------------------------------------------------------------------------
(* Properties of the ways tools are added to the registry.                  *)

\* The classes of a scan that are instantiated, in order: those of each
\* module up to the first that raises
RECURSIVE ClassesReached(_)
ClassesReached(found) ==
    IF found = <<>> THEN <<>>
    ELSE LET m == Head(found)
             ok == {k \in 0..Len(m) : \A i \in 1..k : m[i] # Broken}
             k == CHOOSE x \in ok : \A y \in ok : y <= x
         IN  SubSeq(m, 1, k) \o ClassesReached(Tail(found))

\* A mapping after the classes are added in order, the newer replacing the
\* older of the same name
RECURSIVE LastWins(_, _)
LastWins(reg, classes) ==
    IF classes = <<>> THEN reg
    ELSE LastWins(Register(reg, Head(classes).name, Head(classes).impl), Tail(classes))

\* C20: whenever a capability is added under a name that is already present,
\* the newer registration replaces the older one and the number of registered
\* names does not change; this holds for manual register and for the startup
\* load.
C20_LastRegistrationWins ==
    [][ /\ rlast'.op = "register" =>
            LET c == rlast'.found[1][1]
            IN  /\ tools' = LastWins(tools, <<c>>)
                /\ c.name \in DOMAIN tools =>
                        Cardinality(DOMAIN tools') = Cardinality(DOMAIN tools)
        /\ rlast'.op = "load" =>
            tools' = LastWins(EmptyRegistry, ClassesReached(rlast'.found))
      ]_vars

\* C21: after any sequence of registry operations the set of list_tools, the
\* key set of get_tool_descriptions, the names that are in the registry and
\* the names for which get_tool succeeds are one set, len is its size, and
\* get_tool returns the most recently registered tool of a name: a register
\* makes get_tool return the tool just registered and leaves the other names
\* as they were, and the lookups change nothing; registering on a cleared
\* registry gives len 1.
C21_RegistryViewsAgree ==
    /\ [](/\ DOMAIN GetToolDescriptions(tools) = ListTools(tools)
          /\ {n \in ToolNames : RegContains(tools, n)} = ListTools(tools)
          /\ {n \in ToolNames : GetTool(tools, VStr(n)).ok} = ListTools(tools)
          /\ RegLen(tools) = Cardinality(ListTools(tools))
          /\ \A n \in ListTools(tools) : GetTool(tools, VStr(n)).tool = tools[n])
    /\ [][ /\ rlast'.op = "register" =>
                LET c == rlast'.found[1][1]
                IN  /\ GetTool(tools', VStr(c.name)) = [ok |-> TRUE, tool |-> c.impl, exc |-> ""]
                    /\ ListTools(tools') = ListTools(tools) \cup {c.name}
                    /\ \A n \in ListTools(tools) \ {c.name} : tools'[n] = tools[n]
                    /\ RegLen(tools) = 0 => RegLen(tools') = 1
           /\ rlast'.op = "clear" => RegLen(tools') = 0
           /\ rlast'.op \in {"get_tool", "execute_tool"} => tools' = tools
         ]_vars

\* C21 witness: web_search was registered again with another tool while
\* calendar is registered too: get_tool gives the newer tool, len is 2
C21_Witness ==
    /\ rlast.op = "register"
    /\ rlast.found = <<<<ToolClass("web_search", 2)>>>>
    /\ GetTool(tools, VStr("web_search")).tool = 2
    /\ ListTools(tools) = {"web_search", "calendar"}
    /\ RegLen(tools) = 2

-----------------------------------------------------------------------------
(* Properties of two interleaved calls of run.                              *)

\* The texts the generation calls of kind k of a call returned, in order
OwnTexts(L, k) ==
    LET c == SelectSeq(L.calls, LAMBDA x : x.kind = k /\ x.text # FaultText)
    IN  [i \in 1..Len(c) |-> c[i].text]

\* The values of the transcript entries of kind k of a call, in order
Entries(L, k) ==
    LET h == SelectSeq(L.history, LAMBDA x : x.k = k)
    IN  [i \in 1..Len(h) |-> h[i].v]

\* The decisions among the decision texts of a call that gave an action
OwnActions(L) ==
    LET d == SelectSeq(OwnTexts(L, "DECIDE"), LAMBDA t : DecideAction(t).some)
    IN  [i \in 1..Len(d) |-> StrDict(DecideAction(d[i]).d)]

\* The contents of the nodes of a call's tree below the root
Contents(L) == [i \in 1..(Len(L.nodes) - 1) |-> L.nodes[i + 1].content]

\* Everything a call of the iterative strategy holds comes from its own
\* calls: the thoughts and actions of its transcript are those of its own
\* generation calls, and its result is the one of a call that ran alone
OwnReAct(L) ==
    /\ Entries(L, "Thought") = [i \in 1..Len(OwnTexts(L, "THINK")) |->
                                    Strip(OwnTexts(L, "THINK")[i])]
    /\ Entries(L, "Action") = OwnActions(L)
    /\ Len(Entries(L, "Observation")) \in {Len(OwnActions(L)), Len(OwnActions(L)) - 1}
    /\ L.result.status = "returned" =>
            /\ L.result.value = Strip(L.calls[Len(L.calls)].text)
            /\ L.synthPrompt = FinalPromptReAct(Query, L.history)

\* Everything a call of the branching search holds comes from its own calls:
\* the nodes below the root are the branches of its own branch call, and its
\* evaluated paths are its own leaves with the scores of its own evaluation
\* calls
OwnToT(L) ==
    LET b == OwnTexts(L, "BRANCH")
        e == OwnTexts(L, "EVAL")
    IN  /\ IF b = <<>> THEN Contents(L) = <<>>
           ELSE /\ IsPrefix(Contents(L), GenerateBranches(b[1], numBranches))
                /\ L.pc # "raised" => Contents(L) = GenerateBranches(b[1], numBranches)
        /\ Len(L.evaluated) = Len(e)
        /\ \A k \in 1..Len(e) : \E n \in 1..Len(L.evaluated) :
              /\ L.evaluated[n].node = GetLeafNodes(L.nodes)[k]
              /\ L.evaluated[n].path = GetPath(L.nodes, L.evaluated[n].node)
              /\ L.evaluated[n].score = EvaluateSinglePath(e[k]).score

-----------------------------------------------------------------------------
(* Properties of the scores of the branching search.                        *)

\* C23: every evaluated path carries a score that is a number in the closed
\* range 0 to 10 (0 to 100 tenths), whatever the evaluation texts are.
C23_ScoreInRange ==
    agent = "tot" =>
        \A n \in DOMAIN evaluated :
            /\ evaluated[n].score.t = "num"
            /\ evaluated[n].score.n >= 0 /\ evaluated[n].score.n <= 100

-----------------------------------------------------------------------------
(* Properties of SimpleAgent.                                               *)

\* The positions in calls of the calls that raised: a generation call or an
\* invocation
RaisedCalls ==
    {k \in 1..Len(calls) : calls[k].text = FaultText
                              \/ (calls[k].kind = "INVOKE" /\ calls[k].text[1] = "raised")}

\* The positions in calls of the invocations that returned success = false
FailedInvocations ==
    {k \in 1..Len(calls) : calls[k].kind = "INVOKE" /\ calls[k].text[1] = "failed"}

\* C24: SimpleAgent.run never raises.  When the selected tool returns
\* success = false the run returns a string that reports the tool's error and
\* makes no further generation call; when a step raises (generation fault,
\* unregistered tool, tool exception) the run returns an apology string that
\* contains the error.
C24_SimpleRunNeverRaises ==
    agent = "simple" =>
        /\ pc # "raised" /\ result.status # "raised"
        /\ pc = "done" <=> result.status = "returned"
        /\ \A k \in FailedInvocations :
            /\ k = Len(calls) /\ pc = "done"
            /\ result.value = <<"I tried to use", invocations[Len(invocations)].name.s,
                                "but encountered an error:", calls[k].text[2]>>
        /\ \A k \in RaisedCalls :
            /\ k = Len(calls) /\ pc = "done"
            /\ result.value = <<"I apologize, but I encountered an error:",
                                IF calls[k].kind = "INVOKE" THEN calls[k].text[2]
                                ELSE "GenerationFault">>

\* C24 witness: the planned tool returned success = false and the run has
\* returned the report of its error after the planning call and the invocation
C24_Witness ==
    /\ agent = "simple" /\ pc = "done"
    /\ CallKinds = <<"PLAN", "INVOKE">>
    /\ FailedInvocations = {2}
    /\ result.status = "returned"

\* C24 second witness: the planned tool is not registered and the run has
\* returned the apology
C24_WitnessUnregistered ==
    /\ agent = "simple" /\ pc = "done"
    /\ RaisedCalls = {2} /\ calls[2].text = <<"raised", "KeyError">>
    /\ result = RunReturned(<<"I apologize, but I encountered an error:", "KeyError">>)

\* C25: when the registry holds no tools, SimpleAgent.run makes no
\* tool-planning generation call and no registry invocation: it makes exactly
\* one generation call, the direct answer, and returns its text (stripped).
C25_EmptyRegistryDirectAnswer ==
    (agent = "simple" /\ tools = EmptyRegistry) =>
        /\ CountKind("PLAN") = 0 /\ CountKind("INVOKE") = 0 /\ invocations = <<>>
        /\ Len(calls) <= 1
        /\ pc = "done" =>
            /\ CallKinds = <<"DIRECT">>
            /\ calls[1].text # FaultText => result = RunReturned(Strip(calls[1].text))

\* C25 witness: a run on an empty registry has returned the text of its one
\* direct-answer call
C25_Witness ==
    /\ agent = "simple" /\ tools = EmptyRegistry /\ pc = "done"
    /\ calls = <<Call("DIRECT", <<"answer", WS>>)>>
    /\ result = RunReturned(<<"answer">>)

-----------------------------------------------------------------------------
(* BaseTool.validate_parameters and BaseTool.safe_execute (tools/base.py).  *)
(* A Python value is "None" or a string that stands for any other value; a  *)
(* keyword-argument dict is a function from the names it holds.             *)

MaxParams == 2

PyNone == "None"
ParamName(i) == "p" \o ToString(i)

\* ToolParameter(name, type, description, required, default)
ToolParameter(name, required, default) ==
    [name |-> name, required |-> required, default |-> default]

\* The declared parameter lists: distinct names, any required flag, a
\* default of None or a value
ParameterLists ==
    UNION {[1..n -> BOOLEAN \X {PyNone, "5"}] : n \in 1..MaxParams}

\* The keyword arguments a caller may pass: any subset of the declared names
\* and of an undeclared one, each None or a value
KwargSets ==
    UNION {[ks -> {PyNone, "v"}] :
              ks \in SUBSET ({ParamName(i) : i \in 1..MaxParams} \cup {"extra"})}

\* kwargs.get(name)
KwGet(kw, name) == IF name \in DOMAIN kw THEN kw[name] ELSE PyNone

\* d[name] = value
KwSet(d, name, value) ==
    [k \in DOMAIN d \cup {name} |-> IF k = name THEN value ELSE d[k]]

MissingText(name) == <<"Required parameter", name, "is missing">>

\* validate_parameters accepting a missing required parameter
RECURSIVE ValidateFromLenient(_, _, _, _)
ValidateFromLenient(params, kw, i, validated) ==
    IF i > Len(params) THEN Returned(validated)
    ELSE LET param == params[i]
             given == KwGet(kw, param.name)
             value == IF given = PyNone /\ param.default # PyNone THEN param.default
                      ELSE given
         IN  ValidateFromLenient(params, kw, i + 1, KwSet(validated, param.name, value))

\* The loop of validate_parameters from the i-th declared parameter on:
\* raise for a required parameter that is None, take the default for a None
\* whose default is not None, store the value
RECURSIVE ValidateFrom(_, _, _, _)
ValidateFrom(params, kw, i, validated) ==
    IF i > Len(params) THEN Returned(validated)
    ELSE LET param == params[i]
             given == KwGet(kw, param.name)
             value == IF given = PyNone /\ param.default # PyNone THEN param.default
                      ELSE given
         IN  IF param.required /\ given = PyNone THEN Raised(param.name)
             ELSE ValidateFrom(params, kw, i + 1, KwSet(validated, param.name, value))

ValidateParametersLenient(params, kw) == ValidateFromLenient(params, kw, 1, <<>>)

\* BaseTool.validate_parameters(**kwargs)
ValidateParameters(params, kw) == ValidateFrom(params, kw, 1, <<>>)

\* The handler of safe_execute: a ToolResult with success = false
SafeFailure(msg) == ToolResult(FALSE, DataNone, <<"Tool failed:">> \o msg)

\* BaseTool.safe_execute(**kwargs): validate, then execute with the validated
\* parameters; any exception of either becomes a failed ToolResult
SafeExecute ==
    /\ outcome = NoOutcome /\ parameters # <<>>
    /\ LET v == ValidateParameters([i \in 1..Len(parameters) |->
                    ToolParameter(ParamName(i), parameters[i][1], parameters[i][2])],
                    kwargsIn)
       IN  IF v.kind = "raise"
           THEN /\ outcome' = RunReturned(SafeFailure(MissingText(v.exc)))
                /\ UNCHANGED executed
           ELSE \E beh \in ToolBehaviours :
                    LET r == ToolExecute("tool", v.v, beh)
                    IN  /\ executed' = Append(executed, [args |-> v.v, ended |-> r])
                        /\ outcome' = RunReturned(IF r.kind = "raise"
                                                  THEN SafeFailure(<<r.exc>>)
                                                  ELSE r)
    /\ UNCHANGED <<request, parameters, kwargsIn, max_retries, genArgs, posts, generated,
                   mvars>>

\* A tool with its declared parameters and a call of safe_execute
ToolInit ==
    /\ PIdle /\ AIdle /\ RIdle /\ DIdle /\ MIdle /\ tools = EmptyRegistry /\ Pending
    /\ request = NoRequest
    /\ max_retries = 0 /\ genArgs = <<>> /\ posts = <<>> /\ generated = NoOutcome
    /\ parameters \in ParameterLists
    /\ kwargsIn \in KwargSets
    /\ executed = <<>> /\ outcome = NoOutcome

ToolNext == SafeExecute /\ UNCHANGED <<dvars, pvars, rvars, avars, cvars, tvars>>

SpecTool == ToolInit /\ [][ToolNext]_vars

\* The declared parameters of the tool, as ToolParameters
Declared ==
    [i \in 1..Len(parameters) |->
        ToolParameter(ParamName(i), parameters[i][1], parameters[i][2])]

\* Some required parameter is missing from the call (absent or None)
MissingRequired ==
    \E i \in 1..Len(Declared) :
        Declared[i].required /\ KwGet(kwargsIn, Declared[i].name) = PyNone

\* C26: safe_execute always returns a ToolResult and never raises: a missing
\* required parameter or an exception inside execute yields success = false
\* with an error message; a missing optional parameter with a non-null default
\* is passed to execute as that default; execute is not called at all when
\* validation fails.
C26_SafeExecuteAlwaysReturns ==
    /\ outcome.status \in {"none", "returned"}
    /\ Len(executed) <= 1
    /\ outcome.status = "returned" =>
        /\ outcome.value.kind = "return"
        /\ MissingRequired =>
            /\ executed = <<>>
            /\ outcome.value.success = FALSE
            /\ \E i \in 1..Len(Declared) :
                /\ Declared[i].required /\ KwGet(kwargsIn, Declared[i].name) = PyNone
                /\ outcome.value.error = <<"Tool failed:">> \o MissingText(Declared[i].name)
        /\ ~MissingRequired => Len(executed) = 1
        /\ \A k \in 1..Len(executed) :
            /\ executed[k].ended.kind = "raise" =>
                /\ outcome.value.success = FALSE
                /\ outcome.value.error = <<"Tool failed:", executed[k].ended.exc>>
            /\ executed[k].ended.kind = "return" => outcome.value = executed[k].ended
            /\ \A i \in 1..Len(Declared) :
                LET param == Declared[i]
                IN  (/\ ~param.required
                     /\ param.name \notin DOMAIN kwargsIn
                     /\ param.default # PyNone)
                    => (/\ param.name \in DOMAIN executed[k].args
                        /\ executed[k].args[param.name] = param.default)

\* C26 witness: a call that lacks a required parameter has returned a failed
\* ToolResult without calling execute
C26_Witness ==
    /\ MissingRequired /\ outcome.status = "returned" /\ executed = <<>>
    /\ outcome.value.success = FALSE

\* C26 second witness: execute ran with the default of a missing optional
\* parameter and raised; the call returned a failed ToolResult
C26_WitnessDefault ==
    /\ Len(executed) = 1 /\ executed[1].ended.kind = "raise"
    /\ \E i \in 1..Len(Declared) :
        /\ ~Declared[i].required /\ Declared[i].name \notin DOMAIN kwargsIn
        /\ executed[1].args[Declared[i].name] = "5"
    /\ outcome.status = "returned" /\ outcome.value.success = FALSE

-----------------------------------------------------------------------------
(* The chat service (FastApi/endpoints/chat.py, services/agent_manager.py). *)

\* ChatRequest: agent_type, and max_steps validated by Field(5, ge=1, le=10)
ChatRequest(agent_type, max_steps) ==
    [agent_type |-> agent_type, max_steps |-> max_steps, response |-> "none"]

\* The requested step counts served: both ends of the validated range and
\* the default
RequestedSteps == {1, 5, 10}

ChatRequests == {ChatRequest("react", m) : m \in RequestedSteps}

\* AgentManager.get_agent(agent_type, session_id) for "react":
\* ReActAgent(self.model, self.registry, max_steps=5)
GetAgentMaxSteps(req) == 5

\* chat_with_agent, lines 41-44: the agent that serves the request, at the
\* entry of its run
ChatGetAgent ==
    /\ request.agent_type = "react" /\ agent = "none" /\ pc = "idle"
    /\ agent' = "react" /\ maxSteps' = GetAgentMaxSteps(request) /\ pc' = "think"
    /\ UNCHANGED <<step, history, action, observation, calls, invocations, synthPrompt,
                   result>>

\* chat_with_agent, lines 49-70: the response once the run has ended, 200
\* with the result or 500 when the run raised
ChatRespond ==
    /\ request.response = "none" /\ pc \in {"done", "raised"}
    /\ request' = [request EXCEPT !.response = IF pc = "done" THEN "200" ELSE "500"]

ChatInit ==
    /\ PIdle /\ AIdle /\ RIdle /\ DIdle /\ MIdle /\ Pending
    /\ tools = EmptyRegistry
    /\ request \in ChatRequests
    /\ parameters = <<>> /\ kwargsIn = <<>> /\ executed = <<>> /\ outcome = NoOutcome
    /\ max_retries = 0 /\ genArgs = <<>> /\ posts = <<>> /\ generated = NoOutcome

ChatNext ==
    \/ (ChatGetAgent /\ UNCHANGED <<dvars, svars, pvars, rvars, cvars, tvars>>)
    \/ (ChatRespond /\ UNCHANGED <<dvars, pvars, rvars, avars, cvars, tvars, parameters,
                                   kwargsIn, executed, outcome, max_retries, genArgs,
                                   posts, generated, mvars>>)
    \/ ReActNext
    \/ Fault

SpecChat == ChatInit /\ [][ChatNext]_vars

\* C27: for a chat request with agent_type "react" and max_steps = m
\* (1 <= m <= 10), the iterative run that serves the request performs at
\* most m reasoning steps (THINK iterations).
C27_RunBoundedByRequestedSteps ==
    (request.agent_type = "react" /\ agent = "react") =>
        CountKind("THINK") <= request.max_steps

\* The run that serves a request is bounded by the max_steps the agent
\* manager constructs the agent with
C27_RunBoundedByManagerSteps ==
    (request.agent_type = "react" /\ agent = "react") =>
        /\ maxSteps = 5
        /\ CountKind("THINK") <= 5

\* A request for one step has been answered by a run of five THINK iterations
C27_FiveStepsServed ==
    /\ request.max_steps = 1 /\ request.response = "200"
    /\ CountKind("THINK") = 5

-----------------------------------------------------------------------------
(* OllamaModel.generate (models/ollama.py).  Temperatures are in tenths.     *)

MaxRetries == 3

\* generate(prompt, temperature, max_tokens): an empty, a blank and a proper
\* prompt; a temperature below, inside and above [0.0, 1.0]; max_tokens None,
\* zero or positive
GenArgs ==
    [prompt : {<<>>, <<WS>>, <<"hi">>}, temperature : {-1, 7, 15},
     max_tokens : {PyNone, "0", "300"}]

\* Lines 208-215: the argument checks, "" when they pass
ArgError(a) ==
    IF Strip(a.prompt) = <<>> THEN "Prompt cannot be empty"
    ELSE IF ~(0 <= a.temperature /\ a.temperature <= 10)
         THEN "Temperature must be between 0.0 and 1.0"
    ELSE IF a.max_tokens = "0" THEN "max_tokens must be positive"
    ELSE ""

\* How one POST attempt may end: a response with content, a Timeout, a
\* ConnectionError, an HTTP error status (raise_for_status), or a 200
\* response whose content is missing or empty
Post(kind, text) == [kind |-> kind, text |-> text]
PostOutcomes ==
    {Post("ok", <<"text">>), Post("ok", <<WS, "text", WS>>),
     Post("timeout", <<>>), Post("transport", <<>>), Post("http", <<>>),
     Post("empty", <<>>)}

\* The exceptions of an attempt that the loop catches: Timeout and
\* RequestException (ConnectionError and HTTPError are RequestExceptions)
Caught(p) == p.kind \in {"timeout", "transport", "http"}

GenRaised(exc, msg) == [status |-> "raised", value |-> <<exc, msg>>]
GenRunning == [status |-> "running", value |-> <<>>]

\* Lines 281-287: the loop is over without a return
Exhausted == GenRaised("OllamaGenerationError", "Failed to generate text")

\* Lines 208-239: the entry of generate up to the loop
OllamaEnter ==
    /\ generated = NoOutcome /\ genArgs # <<>>
    /\ generated' = IF ArgError(genArgs) # "" THEN GenRaised("ValueError", ArgError(genArgs))
                    ELSE IF max_retries = 0 THEN Exhausted
                    ELSE GenRunning
    /\ UNCHANGED <<request, parameters, kwargsIn, executed, outcome, max_retries, genArgs,
                   posts, mvars>>

\* Lines 241-279: one iteration of the loop, and what follows the last one
OllamaAttempt ==
    /\ generated = GenRunning /\ Len(posts) < max_retries
    /\ \E p \in PostOutcomes :
        /\ posts' = Append(posts, p)
        /\ generated' =
              IF p.kind = "ok" THEN RunReturned(Strip(p.text))
              ELSE IF Caught(p)
                   THEN IF Len(posts) + 1 < max_retries THEN GenRunning ELSE Exhausted
              ELSE GenRaised("OllamaGenerationError", "Empty response from Ollama")
    /\ UNCHANGED <<request, parameters, kwargsIn, executed, outcome, max_retries, genArgs,
                   mvars>>

OllamaInit ==
    /\ PIdle /\ AIdle /\ RIdle /\ DIdle /\ MIdle /\ tools = EmptyRegistry /\ Pending
    /\ request = NoRequest
    /\ parameters = <<>> /\ kwargsIn = <<>> /\ executed = <<>> /\ outcome = NoOutcome
    /\ max_retries \in 0..MaxRetries
    /\ genArgs \in GenArgs
    /\ posts = <<>> /\ generated = NoOutcome

OllamaNext ==
    \/ (OllamaEnter /\ UNCHANGED <<dvars, pvars, rvars, avars, cvars, tvars>>)
    \/ (OllamaAttempt /\ UNCHANGED <<dvars, pvars, rvars, avars, cvars, tvars>>)

SpecOllama == OllamaInit /\ [][OllamaNext]_vars

\* The attempts that did not deliver a text
FailedPosts == {k \in 1..Len(posts) : posts[k].kind # "ok"}

\* C28: generate with max_retries = R makes at most R POST attempts; it
\* returns the text of the first attempt that succeeds and makes no further
\* attempt after it; every failed attempt (timeout, transport or HTTP error,
\* empty content) before the R-th is followed by another attempt; if all R
\* attempts fail it raises OllamaGenerationError; an empty prompt or an
\* out-of-range temperature raises ValueError before any attempt.
C28_RetriesUpToMaxRetries ==
    /\ Len(posts) <= max_retries
    /\ \A k \in 1..Len(posts) : posts[k].kind = "ok" =>
        /\ k = Len(posts) /\ FailedPosts = 1..(k - 1)
        /\ generated = RunReturned(Strip(posts[k].text))
    /\ \A k \in FailedPosts : k < max_retries =>
        (Len(posts) > k \/ generated = GenRunning)
    /\ (Len(posts) = max_retries /\ FailedPosts = 1..max_retries
            /\ generated.status # "none" /\ ArgError(genArgs) = "")
        => (generated.status = "raised" /\ generated.value[1] = "OllamaGenerationError")
    /\ (generated.status # "none"
            /\ (Strip(genArgs.prompt) = <<>> \/ genArgs.temperature \notin 0..10))
        => (posts = <<>> /\ generated.status = "raised"
               /\ generated.value[1] = "ValueError")

\* What the loop does: an attempt that ends with a Timeout or a
\* RequestException before the R-th is followed by another attempt, an
\* attempt with empty content ends the call with OllamaGenerationError at
\* once, and the call never makes more than R attempts
C28_EmptyContentEndsTheCall ==
    /\ Len(posts) <= max_retries
    /\ \A k \in FailedPosts :
        /\ (Caught(posts[k]) /\ k < max_retries) =>
            (Len(posts) > k \/ generated = GenRunning)
        /\ posts[k].kind = "empty" =>
            /\ k = Len(posts)
            /\ generated = GenRaised("OllamaGenerationError", "Empty response from Ollama")

\* The first of three attempts had empty content and the call has raised
C28_RaisedAfterOneAttempt ==
    /\ max_retries = 3 /\ Len(posts) = 1 /\ posts[1].kind = "empty"
    /\ generated.status = "raised"

-----------------------------------------------------------------------------
(* Properties of the ACT step of the iterative strategy.                    *)

\* The observation texts the faults of invoking the chosen capability give:
\* "Failed: <exception>" for an exception (a decision without tool_name,
\* parameters that are no dict, an unregistered name, an exception of the
\* tool) and "Error: <error>" for an outcome with success = false
FaultObservations(reg, act) ==
    LET c == CallArgs(act.tool_name, GetOrEmpty(act.parameters))
    IN  IF ~c.ok THEN {<<"Failed:", c.exc>>}
        ELSE {IF r.kind = "raise" THEN <<"Failed:", r.exc>> ELSE <<"Error:", r.error>> :
                 r \in {x \in {ExecuteTool(reg, c.name, c.kwargs, beh) : beh \in ToolBehaviours} :
                           x.kind = "raise" \/ ~x.success}}

\* The invocation cannot but fault: it raises before or inside the registry
\* whatever the tool would do
FaultCertain(reg, act) ==
    LET c == CallArgs(act.tool_name, GetOrEmpty(act.parameters))
    IN  ~c.ok \/ \A beh \in ToolBehaviours : ExecuteTool(reg, c.name, c.kwargs, beh).kind = "raise"

IsFaultText(obs) == obs # <<>> /\ obs[1] \in {"Error:", "Failed:"}

\* C29: in the iterative strategy a capability fault during ACT (an outcome
\* with success = false, or an exception raised by the invocation) does not
\* end the loop: its error text is appended to the transcript as the
\* Observation of that step, and the next state is THINK if fewer than N
\* iterations have run, otherwise synthesis.
C29_ActFaultBecomesObservation ==
    [][(agent = "react" /\ pc = "act") =>
        /\ result' = Running
        /\ observation'.some
        /\ history' = Append(history, [k |-> "Observation", v |-> observation'.v])
        /\ FaultCertain(tools, action) => observation'.v \in FaultObservations(tools, action)
        /\ (observation'.v = <<>> \/ IsFaultText(observation'.v)) =>
            observation'.v \in FaultObservations(tools, action)
        /\ pc' = IF CountKind("THINK") < maxSteps THEN "think" ELSE "synth"]_vars

\* C29 witness: the tool of the first iteration returned success = false, its
\* error is the Observation of that step and the run is at its second THINK
C29_Witness ==
    /\ agent = "react" /\ pc = "think" /\ step = 2 /\ maxSteps = 2
    /\ CountKind("THINK") = 1 /\ CountKind("INVOKE") = 1
    /\ history[Len(history)] = [k |-> "Observation", v |-> <<"Error:", "Network timeout">>]
    /\ result = Running

\* C29 second witness: the invocation of the last iteration raised and the run
\* is at the synthesis
C29_WitnessSynth ==
    /\ agent = "react" /\ pc = "synth" /\ CountKind("THINK") = maxSteps
    /\ history # <<>> /\ history[Len(history)].k = "Observation"
    /\ history[Len(history)].v[1] = "Failed:"
    /\ result = Running

-----------------------------------------------------------------------------
(* Properties of the thought chain of CoTAgent.                             *)

\* The lines of a response: the parts between its line breaks
RECURSIVE LinesOf(_)
LinesOf(text) ==
    IF ~Has(text, WS) THEN <<text>>
    ELSE LET i == Find(text, WS)
         IN  <<SubSeq(text, 1, i - 1)>> \o LinesOf(SubSeqFrom(text, i + 1))

\* A step begins at the first line and at every line that starts with the
\* boundary marker
StepStarts(lines) == {1} \cup {i \in 1..Len(lines) : StartsWithStep(lines[i])}

\* The last line of the step that begins at line i
StepEnd(lines, i) ==
    IF \E j \in StepStarts(lines) : j > i
    THEN (CHOOSE j \in StepStarts(lines) :
              j > i /\ \A m \in StepStarts(lines) : m > i => j <= m) - 1
    ELSE Len(lines)

\* The words of lines i..e, each line without its marker
RECURSIVE WordsOf(_, _, _)
WordsOf(lines, i, e) ==
    IF i > e THEN <<>>
    ELSE (IF StartsWithStep(lines[i]) THEN AfterColon(lines[i]) ELSE lines[i])
         \o WordsOf(lines, i + 1, e)

\* The steps recoverable from the lines from line i on, in the order of the
\* response: the steps that have any words
RECURSIVE StepsFrom(_, _)
StepsFrom(lines, i) ==
    IF i > Len(lines) THEN <<>>
    ELSE (IF i \in StepStarts(lines) /\ WordsOf(lines, i, StepEnd(lines, i)) # <<>>
          THEN <<WordsOf(lines, i, StepEnd(lines, i))>> ELSE <<>>)
         \o StepsFrom(lines, i + 1)

Recoverable(text) == StepsFrom(LinesOf(text), 1)

\* C30: _generate_thought_chain returns at most K (num_thoughts) steps, in
\* the order they appear in the response, one per step boundary marker; when
\* fewer than K steps (including zero) are recoverable it returns what was
\* recovered and the run still proceeds to DECIDE and SYNTHESIZE.
C30_ChainIsFirstKSteps ==
    (agent = "cot" /\ calls # <<>> /\ calls[1].text # FaultText) =>
        LET steps == Recoverable(calls[1].text)
        IN  /\ Len(chain) <= numThoughts
            /\ chain = SubSeq(steps, 1, Len(chain))
            /\ Len(steps) >= numThoughts => Len(chain) = numThoughts
            /\ Len(steps) < numThoughts => chain = steps
            /\ Len(calls) = 1 => pc = "decide"
            /\ pc = "raised" => (Len(calls) >= 2 /\ CallKinds[2] = "DECIDE")
            /\ pc = "done" => CallKinds[Len(calls)] = "SYNTH"

\* C30 witness: a response with more steps than num_thoughts was cut to the
\* first num_thoughts
C30_Witness ==
    /\ agent = "cot" /\ pc = "decide" /\ numThoughts = 2
    /\ Len(Recoverable(calls[1].text)) = 4
    /\ chain = << <<"t1", "t1b">>, <<"t2">> >>

\* C30 second witness: no step was recoverable and the run has returned after
\* the decision and the synthesis
C30_WitnessEmpty ==
    /\ agent = "cot" /\ pc = "done" /\ chain = <<>>
    /\ CallKinds = <<"CHAIN", "DECIDE", "SYNTH">>
    /\ result.status = "returned"

\* C30 third witness: a marker with nothing after it gave no step of its own
C30_WitnessFewer ==
    /\ agent = "cot" /\ pc = "synth" /\ numThoughts = 2
    /\ calls[1].text = <<"Step:", WS, "t2", WS, WS, "Step:", "t3">>
    /\ chain = << <<"t2">>, <<"t3">> >>

-----------------------------------------------------------------------------
(* Properties of the built reasoning tree.                                  *)

\* node.children: the nodes whose parent reference is node i
ChildIds(ns, i) == {j \in 1..Len(ns) : ns[j].parent = i}

\* The shape every built tree has: root at depth 0, a child one deeper than
\* its parent and created after it, no node deeper than D, at most B children
\* per node, at most B^D leaves
TreeShape ==
    /\ nodes # <<>> /\ nodes[1].depth = 0 /\ nodes[1].parent = 0
    /\ \A j \in 2..Len(nodes) :
        /\ nodes[j].parent \in 1..(j - 1)
        /\ nodes[j].depth = nodes[nodes[j].parent].depth + 1
    /\ \A j \in 1..Len(nodes) :
        /\ nodes[j].depth <= maxDepth
        /\ Cardinality(ChildIds(nodes, j)) <= numBranches
    /\ Len(GetLeafNodes(nodes)) <= numBranches ^ maxDepth

\* C31: after the build phase of any branching-search run the root has depth
\* 0; every child has depth equal to its parent's depth plus 1 and its parent
\* reference is the node that lists it as a child; no node has depth greater
\* than D; every node has at most B children; every leaf is at depth exactly
\* D; and the number of leaves is at most B^D.
C31_BuiltTreeShape ==
    BuildComplete =>
        /\ TreeShape
        /\ \A j \in 1..Len(nodes) : IsLeaf(nodes, j) => nodes[j].depth = maxDepth

\* What holds of every built tree: the shape without the depth of the leaves
C31_BuiltTreeShapeHolds == BuildComplete => TreeShape

\* A built tree whose root has no children: the only leaf is at depth 0
C31_RootIsLeaf ==
    /\ BuildComplete /\ maxDepth >= 1 /\ Len(nodes) = 1
    /\ calls[1] = Call("BRANCH", <<"[", "]">>)

-----------------------------------------------------------------------------
(* Properties of the order of the calls of an iterative run.                *)

\* C32: within one iterative run the external calls happen strictly one at
\* a time in the order THINK, DECIDE, ACT for each iteration: a DECIDE call
\* is always immediately preceded by the THINK call of the same iteration, a
\* Registry invocation is always immediately preceded by a DECIDE call, and
\* the synthesis call is the last call of the run and happens exactly once.
C32_ReActCallOrder ==
    /\ [](agent = "react" =>
            /\ calls # <<>> => calls[1].kind = "THINK"
            /\ \A i \in DOMAIN calls :
                /\ calls[i].kind \in {"THINK", "DECIDE", "INVOKE", "SYNTH"}
                /\ calls[i].kind = "DECIDE" =>
                    /\ i > 1 /\ calls[i - 1].kind = "THINK"
                    /\ CountKind("THINK")
                         - Cardinality({j \in DOMAIN calls : j > i /\ calls[j].kind = "THINK"})
                       = Cardinality({j \in DOMAIN calls : j <= i /\ calls[j].kind = "DECIDE"})
                /\ calls[i].kind = "INVOKE" => (i > 1 /\ calls[i - 1].kind = "DECIDE")
                /\ (calls[i].kind = "THINK" /\ i > 1) =>
                    calls[i - 1].kind \in {"DECIDE", "INVOKE"}
                /\ calls[i].kind = "SYNTH" => i = Len(calls)
            /\ CountKind("SYNTH") <= 1
            /\ pc = "done" => (CountKind("SYNTH") = 1 /\ result.status = "returned"))
    /\ [][agent = "react" =>
            /\ Len(calls') <= Len(calls) + 1
            /\ SubSeq(calls', 1, Len(calls)) = calls]_vars

\* C32 witness: a run of two iterations, each with its THINK, DECIDE and
\* invocation, has made its synthesis call and returned
C32_Witness ==
    /\ agent = "react" /\ pc = "done" /\ result.status = "returned"
    /\ CallKinds = <<"THINK", "DECIDE", "INVOKE", "THINK", "DECIDE", "INVOKE", "SYNTH">>

-----------------------------------------------------------------------------
(* Properties of the evaluate phase.                                        *)

\* The nodes without children, in the order they were created (depth first,
\* left to right)
LeafIds == SelectSeq(NodeIds, LAMBDA i : ChildIds(nodes, i) = {})

\* C33: in the evaluate phase exactly one generation call is issued per leaf
\* of the built tree, in construction (depth-first, left-to-right) order, and
\* the list of evaluated paths has exactly one entry per leaf and is never
\* empty, so the select phase always has a path to choose.
C33_OneEvaluationPerLeaf ==
    agent = "tot" =>
        /\ pc = "build" => (CountKind("EVAL") = 0 /\ evaluated = <<>>)
        /\ pc # "build" => LeafIds # <<>>
        /\ pc = "evaluate" =>
            /\ CountKind("EVAL") = Len(evaluated) /\ Len(evaluated) < Len(LeafIds)
            /\ \A k \in 1..Len(evaluated) :
                /\ evaluated[k].node = LeafIds[k]
                /\ evaluated[k].path = GetPath(nodes, LeafIds[k])
        /\ Selected =>
            /\ CountKind("EVAL") = Len(LeafIds)
            /\ Len(evaluated) = Len(LeafIds) /\ evaluated # <<>>
            /\ \A i \in 1..Len(LeafIds) :
                Cardinality({k \in 1..Len(evaluated) : evaluated[k].node = LeafIds[i]}) = 1
            /\ \A k \in 1..Len(evaluated) :
                evaluated[k].path = GetPath(nodes, evaluated[k].node)
            /\ best = evaluated[1]

\* C33 witness: a tree with an inner node and two leaves has been evaluated
\* with two calls and a path is selected
C33_Witness ==
    /\ Selected /\ Len(nodes) = 3 /\ Len(LeafIds) = 2
    /\ CountKind("EVAL") = 2 /\ Len(evaluated) = 2

\* C33 second witness: the root alone is the one leaf and the one path
C33_WitnessRootOnly ==
    /\ Selected /\ Len(nodes) = 1 /\ evaluated # <<>>
    /\ evaluated[1].node = 1 /\ CountKind("EVAL") = 1

-----------------------------------------------------------------------------
(* Properties of the transcript of an iterative run.                        *)

\* The kind the i-th entry of a transcript of repeated triples has
PatternKind(i) ==
    CASE i % 3 = 1 -> "Thought"
      [] i % 3 = 2 -> "Action"
      [] OTHER -> "Observation"

HistoryKinds == [i \in DOMAIN history |-> history[i].k]

\* C34: at every point of an iterative run the transcript is a prefix of the
\* pattern (Thought, Action, Observation) repeated: entries are only
\* appended, every Action entry is immediately preceded by a Thought and
\* immediately followed by an Observation before the next THINK, the
\* transcript never holds more than 3N entries, and the transcript given to
\* synthesis is either k complete triples (k = N) or k complete triples
\* followed by a single Thought (k < N).
C34_TranscriptIsTriples ==
    /\ [](agent = "react" =>
            /\ \A i \in DOMAIN history : history[i].k = PatternKind(i)
            /\ Len(history) <= 3 * maxSteps
            /\ pc = "think" => Len(history) % 3 = 0
            /\ pc = "decide" => Len(history) % 3 = 1
            /\ pc = "act" => Len(history) % 3 = 2
            /\ pc \in {"synth", "done"} =>
                \/ Len(history) = 3 * maxSteps
                \/ (Len(history) % 3 = 1 /\ Len(history) \div 3 < maxSteps)
            /\ pc = "done" => synthPrompt = FinalPromptReAct(Query, history))
    /\ [][agent = "react" =>
            /\ Len(history') \in {Len(history), Len(history) + 1}
            /\ SubSeq(history', 1, Len(history)) = history]_vars

\* C34 witness: N complete triples were given to the synthesis
C34_Witness ==
    /\ agent = "react" /\ pc = "done" /\ maxSteps = 2
    /\ HistoryKinds = <<"Thought", "Action", "Observation",
                        "Thought", "Action", "Observation">>

\* C34 second witness: one triple and a single Thought were given to the
\* synthesis
C34_WitnessThought ==
    /\ agent = "react" /\ pc = "done" /\ maxSteps = 2
    /\ HistoryKinds = <<"Thought", "Action", "Observation", "Thought">>

-----------------------------------------------------------------------------
(* Properties of the invocations of the three strategies.                   *)

\* The text holds a decision object whose wants-action flag is set
WantsAction(text) ==
    /\ \E i, j \in DOMAIN text : i < j /\ text[i] = "{" /\ text[j] = "}"
    /\ \E i \in DOMAIN text : text[i] \in {"nt=true", "nt=yes"}

\* The decision text of a flag that is false with a capability name and
\* arguments
RefusalWithCapability ==
    <<"{", "nt=false", "tn=web_search", "pm=", "{", "q=python tutorials", "}", "}">>

\* C35: in every strategy a Registry invocation happens only after a DECIDE
\* output that parsed to a decision wanting an action; a decision whose
\* wants-action flag is false never leads to an invocation even when it also
\* carries a capability name and arguments; the number of Registry
\* invocations is at most N in an iterative run and at most 1 in an
\* upfront-chain or branching-search run.
C35_InvocationOnlyAfterWantingDecision ==
    agent \in {"react", "cot", "tot"} =>
        /\ Len(invocations) = CountKind("INVOKE")
        /\ \A i \in DOMAIN calls :
            /\ calls[i].kind = "INVOKE" =>
                /\ i > 1 /\ calls[i - 1].kind = "DECIDE"
                /\ WantsAction(calls[i - 1].text)
            /\ (calls[i].kind = "DECIDE" /\ calls[i].text = RefusalWithCapability) =>
                /\ i = Len(calls) \/ calls[i + 1].kind = "SYNTH"
                /\ i = Len(calls) => pc = "synth"
        /\ agent = "react" => Len(invocations) <= maxSteps
        /\ agent \in {"cot", "tot"} => Len(invocations) <= 1

\* C35 witness: a branching-search run whose decision was a refusal carrying
\* a capability name and arguments has returned without an invocation
C35_Witness ==
    /\ agent = "tot" /\ pc = "done" /\ result.status = "returned"
    /\ invocations = <<>>
    /\ \E i \in DOMAIN calls : calls[i].kind = "DECIDE" /\ calls[i].text = RefusalWithCapability

\* C35 second witness: an iterative run made N invocations, each after a
\* decision that wanted an action
C35_WitnessIterative ==
    /\ agent = "react" /\ maxSteps = 2 /\ Len(invocations) = 2 /\ pc = "done"

\* C35 third witness: an upfront-chain run made its one invocation
C35_WitnessChain ==
    /\ agent = "cot" /\ Len(invocations) = 1 /\ pc = "done"

-----------------------------------------------------------------------------
(* Properties of TreeNode.get_path.                                         *)

\* The number of parent references between node i and the root
RECURSIVE StepsToRoot(_, _)
StepsToRoot(ns, i) == IF ns[i].parent = 0 THEN 0 ELSE 1 + StepsToRoot(ns, ns[i].parent)

\* C36: for every node of a built reasoning tree, get_path returns a list of
\* length depth + 1 whose first element is the root's content and whose last
\* element is the node's own content, and calling it changes no node's
\* content, depth, parent or children.
C36_GetPathRootToNode ==
    /\ [](agent = "tot" =>
            /\ \A i \in 1..Len(nodes) :
                LET path == GetPath(nodes, i)
                IN  /\ Len(path) = nodes[i].depth + 1
                    /\ Len(path) = StepsToRoot(nodes, i) + 1
                    /\ path[1] = nodes[1].content
                    /\ path[Len(path)] = nodes[i].content
                    /\ nodes[i].parent # 0 =>
                        SubSeq(path, 1, Len(path) - 1) = GetPath(nodes, nodes[i].parent)
            /\ \A k \in 1..Len(evaluated) :
                /\ Len(evaluated[k].path) = nodes[evaluated[k].node].depth + 1
                /\ evaluated[k].path[1] = nodes[1].content
                /\ evaluated[k].path[Len(evaluated[k].path)] = nodes[evaluated[k].node].content)
    /\ [][agent = "tot" =>
            /\ SubSeq(nodes', 1, Len(nodes)) = nodes
            /\ pc = "evaluate" => nodes' = nodes]_vars

\* C36 witness: the path of a leaf at depth 2 has been taken in the
\* evaluation: root, child, leaf
C36_Witness ==
    /\ agent = "tot" /\ maxDepth = 2 /\ evaluated # <<>>
    /\ nodes[evaluated[1].node].depth = 2
    /\ Len(evaluated[1].path) = 3
    /\ evaluated[1].path[1] = "Query"

-----------------------------------------------------------------------------
(* Properties of the startup load of the registry.                          *)

\* The classes of a scan that get instantiated: <<m, k>> is the k-th class
\* of the m-th module, reached when no class before it in its module raised
ReachedAt(found) ==
    {<<m, k>> \in (1..Len(found)) \X (1..3) :
        /\ k <= Len(found[m])
        /\ \A j \in 1..k : found[m][j] # Broken}

\* <<m, k>> comes before <<m2, k2>> in the scan
Before(p, q) == p[1] < q[1] \/ (p[1] = q[1] /\ p[2] < q[2])

\* The first reached class of the scan that reports the name
FirstOfName(found, name) ==
    CHOOSE p \in ReachedAt(found) :
        /\ found[p[1]][p[2]].name = name
        /\ \A q \in ReachedAt(found) : found[q[1]][q[2]].name = name => ~Before(q, p)

\* C37: during the startup load of the registry, when two discovered tool
\* classes report the same name the first one registered is kept and the later
\* one is skipped, and a module that fails to import or instantiate leaves
\* the tools registered so far unchanged and does not stop the remaining
\* modules from being loaded.
C37_StartupLoadFirstKept ==
    rlast.op = "load" =>
        LET found == rlast.found
        IN  /\ DOMAIN tools = {found[p[1]][p[2]].name : p \in ReachedAt(found)}
            /\ \A n \in DOMAIN tools :
                tools[n] = found[FirstOfName(found, n)[1]][FirstOfName(found, n)[2]].impl
            /\ \A m \in 1..Len(found) :
                tools = LoadTools(LoadTools(EmptyRegistry, SubSeq(found, 1, m - 1)),
                                  SubSeq(found, m, Len(found)))

\* C37 witness: the first module registered web_search and then failed, the
\* second module's web_search was skipped as a duplicate
C37_Witness ==
    /\ rlast.op = "load"
    /\ rlast.found = <<<<ToolClass("web_search", 2), Broken, ToolClass("calendar", 1)>>,
                       <<ToolClass("web_search", 1)>>>>
    /\ tools = Register(EmptyRegistry, "web_search", 2)

\* C37 second witness: the first module failed at once and the second module
\* was loaded
C37_WitnessLaterModule ==
    /\ rlast.op = "load"
    /\ rlast.found = <<<<Broken, ToolClass("calendar", 1)>>, <<ToolClass("web_search", 1)>>>>
    /\ tools = Register(EmptyRegistry, "web_search", 1)

-----------------------------------------------------------------------------
(* Properties of the lookups of the registry.                               *)

\* A lookup of a name that is not registered changes nothing in the mapping
\* and reaches no tool
UnregisteredLookupFrame ==
    /\ (rlast'.op = "get_tool" /\ ~Registered(tools, rlast'.name)) =>
            /\ tools' = tools
            /\ rlast'.got = [ok |-> FALSE, tool |-> 0, exc |-> "KeyError"]
    /\ (rlast'.op = "execute_tool" /\ ~Registered(tools, rlast'.name)) =>
            /\ tools' = tools
            /\ rlast'.reached = <<>>
            /\ rlast'.out.kind = "raise"

\* C38: get_tool and execute_tool on an unregistered name leave the
\* registry's mapping unchanged, and a call to execute_tool on a registered
\* name invokes that tool's execute exactly once with the given arguments and
\* changes nothing in the mapping.
C38_LookupsLeaveMappingAlone ==
    [][ /\ UnregisteredLookupFrame
        /\ (rlast'.op = "execute_tool" /\ Registered(tools, rlast'.name)) =>
                /\ tools' = tools
                /\ rlast'.reached = <<[tool |-> tools[rlast'.name.s],
                                       kwargs |-> rlast'.kwargs]>>
      ]_vars

\* The same, for the calls whose keywords do not include one called name
C38_LookupsLeaveMappingAloneBound ==
    [][ /\ UnregisteredLookupFrame
        /\ (rlast'.op = "execute_tool" /\ Registered(tools, rlast'.name)) =>
                /\ tools' = tools
                /\ ~BindsNameTwice(rlast'.kwargs) =>
                        /\ rlast'.reached = <<[tool |-> tools[rlast'.name.s],
                                               kwargs |-> rlast'.kwargs]>>
                        /\ rlast'.out = ToolExecute(tools[rlast'.name.s], rlast'.kwargs,
                                                    rlast'.beh)
      ]_vars

\* execute_tool on the registered web_search with the keyword name: the call
\* raised TypeError and the tool's execute was not reached
C38_NameKeywordNeverReachesTool ==
    /\ rlast.op = "execute_tool" /\ Registered(tools, rlast.name)
    /\ rlast.kwargs = {"name=x"}
    /\ rlast.reached = <<>>
    /\ rlast.out = ToolRaised("TypeError")

\* execute_tool on the registered web_search with a query: its execute was
\* reached once with that query
C38_Witness ==
    /\ rlast.op = "execute_tool" /\ rlast.name = VStr("web_search")
    /\ tools = Register(EmptyRegistry, "web_search", 1)
    /\ rlast.reached = <<[tool |-> 1, kwargs |-> {"q=python tutorials"}]>>
    /\ rlast.out.kind = "return"

-----------------------------------------------------------------------------
(* MemoryEnabledScheduler (agents/memory_agent.py) with its conversation    *)
(* store and preference engine (memory/).  A text is the sequence of its    *)
(* words; the rows of the store are shared with other writers.              *)

MaxRuns == 1
MaxForeign == 1
MaxContext == 1

\* str.lower() of a word
LowerWord(tok) ==
    CASE tok = "I" -> "i"
      [] tok = "Friday" -> "friday"
      [] tok = "Schedule" -> "schedule"
      [] OTHER -> tok

\* text.lower()
LowerText(text) == [i \in DOMAIN text |-> LowerWord(text[i])]

\* sub in tok, for a word sub and a word tok of the text
InWord(sub, tok) ==
    tok = sub \/ <<sub, tok>> \in {<<"meeting", "meetings">>, <<"schedule", "reschedule">>}

\* sub in text, for one word sub
HasWord(text, sub) == \E i \in 1..Len(text) : InWord(sub, text[i])

\* "a b" in text, for two words a and b: a word ending in a, then a word
\* beginning with b
HasPhrase(text, a, b) ==
    \E i \in 1..(Len(text) - 1) :
        /\ (text[i] = a \/ <<a, text[i]>> \in {<<"schedule", "reschedule">>})
        /\ (text[i + 1] = b \/ <<b, text[i + 1]>> \in {<<"meeting", "meetings">>})

NoPreference == [some |-> FALSE, category |-> "", key |-> "", value |-> <<>>]
Preference(c, k, v) == [some |-> TRUE, category |-> c, key |-> k, value |-> <<v>>]

\* day.capitalize()
Capitalize(day) ==
    CASE day = "monday" -> "Monday"
      [] day = "tuesday" -> "Tuesday"
      [] day = "wednesday" -> "Wednesday"
      [] day = "thursday" -> "Thursday"
      [] OTHER -> "Friday"

\* PreferenceEngine.extract_preference_from_text: the day loop, from days[n]
RECURSIVE DayPreference(_, _)
DayPreference(t, days) ==
    IF days = <<>> THEN NoPreference
    ELSE IF HasWord(t, Head(days))
         THEN Preference("scheduling", "preferred_meeting_day", Capitalize(Head(days)))
         ELSE DayPreference(t, Tail(days))

\* PreferenceEngine.extract_preference_from_text
ExtractPreferenceFromText(text) ==
    LET t == LowerText(text)
        first ==
            IF HasPhrase(t, "i", "prefer") \/ HasPhrase(t, "i", "like")
            THEN IF HasWord(t, "morning")
                 THEN Preference("scheduling", "preferred_time_of_day", "morning")
                 ELSE IF HasWord(t, "afternoon")
                      THEN Preference("scheduling", "preferred_time_of_day", "afternoon")
                      ELSE DayPreference(t, <<"monday", "tuesday", "wednesday", "thursday",
                                              "friday">>)
            ELSE NoPreference
    IN  IF first.some THEN first
        ELSE IF (HasWord(t, "always") \/ HasWord(t, "never"))
                /\ HasWord(t, "meeting") /\ HasWord(t, "morning")
             THEN Preference("scheduling", "meeting_time_rule",
                             IF HasWord(t, "always") THEN "always_morning"
                             ELSE "never_morning")
             ELSE NoPreference

\* PreferenceEngine.save_explicit_preference
SaveExplicitPreference(expl, category, key, value) ==
    [p \in DOMAIN expl \cup {<<category, key>>} |->
        IF p = <<category, key>> THEN value ELSE expl[p]]

\* PreferenceEngine.get_preference: no pattern is learned during run
GetPreference(expl, category, key, default) ==
    IF <<category, key>> \in DOMAIN expl THEN expl[<<category, key>>] ELSE default

\* MemoryEnabledScheduler._has_reference
HasReference(text) ==
    LET t == LowerText(text)
    IN  \/ HasPhrase(t, "that", "meeting") \/ HasPhrase(t, "that", "appointment")
        \/ HasPhrase(t, "the", "meeting") \/ HasPhrase(t, "the", "appointment")
        \/ HasPhrase(t, "move", "it") \/ HasPhrase(t, "cancel", "it")
        \/ HasPhrase(t, "reschedule", "it")
        \/ HasPhrase(t, "what", "time") \/ HasPhrase(t, "when", "is")

\* ContextManager.extract_entities: the dates and the times found in the
\* text, each a list without duplicates
DateWords == {"tomorrow", "today", "yesterday", "monday", "tuesday", "wednesday",
              "thursday", "friday", "saturday", "sunday"}
TimeWords == {"10:00", "3pm"}
ExtractEntities(text) ==
    [dates |-> {text[i] : i \in {j \in 1..Len(text) : LowerWord(text[j]) \in DateWords}},
     times |-> {text[i] : i \in {j \in 1..Len(text) : LowerWord(text[j]) \in TimeWords}}]

\* MemoryEnabledScheduler._understand_task: needs_scheduling
NeedsScheduling(text) ==
    \E k \in {"schedule", "meeting", "appointment", "remind", "event", "book"} :
        HasWord(LowerText(text), k)

\* What dateparser.parse gives: no datetime, or one
NoDatetime == [some |-> FALSE, date |-> "", time |-> ""]
Datetimes == {NoDatetime, [some |-> TRUE, date |-> "2026-01-02", time |-> "10:00"]}

\* MemoryEnabledScheduler._extract_schedule_with_preferences; dt is what
\* dateparser.parse gives for the string it is handed.  The key dates and
\* the key times are always in entities, so [0] of an empty list raises
ExtractScheduleWithPreferences(text, entities, expl, dt) ==
    IF (entities.dates # {} \/ entities.times # {})
       /\ (entities.dates = {} \/ entities.times = {})
    THEN [kind |-> "raise", exc |-> "IndexError", title |-> <<>>, date |-> "", time |-> "",
          duration |-> <<>>, error |-> <<>>]
    ELSE IF ~dt.some
         THEN [kind |-> "invalid", exc |-> "", title |-> <<>>, date |-> "", time |-> "",
               duration |-> <<>>,
               error |-> <<"Could not understand scheduling date/time">>]
         ELSE [kind |-> "valid", exc |-> "", title |-> SubSeq(text, 2, IF Len(text) < 5 THEN Len(text) ELSE 5),
               date |-> dt.date, time |-> dt.time,
               duration |-> GetPreference(expl, "scheduling", "typical_meeting_duration",
                                          <<"60">>),
               error |-> <<>>]

\* A row of the conversations table
Row(sid, user, response, type, metadata) ==
    [session_id |-> sid, user_message |-> user, agent_response |-> response,
     agent_type |-> type, metadata |-> metadata]

\* ConversationStore.save: the INSERT
Save(mem, row) == Append(mem, row)

\* The metadata of the row written by _process_new_task, lines 125-130
ScheduleMetadata(d) ==
    [title |-> d.title, date |-> <<d.date>>, time |-> <<d.time>>,
     duration_minutes |-> d.duration]

\* MemoryEnabledScheduler._extract_metadata
ExtractMetadata(text, sid) ==
    [dates |-> ExtractEntities(text).dates, times |-> ExtractEntities(text).times,
     has_reference |-> HasReference(text), session |-> sid]

\* The rows other programs write into the same table, with agent_type
\* task_scheduler
ForeignRows ==
    { Row("", <<"Team", "meeting", "Monday">>, <<"Scheduled">>, "task_scheduler",
          [event |-> <<"team meeting">>, task_type |-> <<"task">>]) }

\* entity_type in task_type or entity_type in event, lines 132-135
AboutEntity(metadata, entity) ==
    CASE entity = "meeting" -> metadata.event = <<"team meeting">>
      [] OTHER -> metadata.task_type = <<"task">>

\* ContextManager.resolve_reference for "that meeting" (entity meeting) and
\* "that event" (entity task): the latest task_scheduler row about the entity
ResolveReference(mem, entity) ==
    LET hits == {i \in 1..Len(mem) : /\ mem[i].agent_type = "task_scheduler"
                                     /\ AboutEntity(mem[i].metadata, entity)}
    IN  IF hits = {} THEN [some |-> FALSE, event |-> <<>>]
        ELSE [some |-> TRUE,
              event |-> mem[CHOOSE i \in hits : \A j \in hits : j <= i].metadata.event]

NoResponse == [some |-> FALSE, text |-> <<>>]
Response(text) == [some |-> TRUE, text |-> text]

\* 'time' in metadata
HasTimeKey(row) == "time" \in DOMAIN row.metadata

\* MemoryEnabledScheduler._handle_reference; ctx is what get_relevant_context
\* returned: positions of rows of the store
HandleReference(text, mem, ctx) ==
    LET t == LowerText(text)
        timed == {i \in ctx : HasTimeKey(mem[i])}
        times == ExtractEntities(text).times
        meeting == ResolveReference(mem, "meeting")
        task == ResolveReference(mem, "task")
    IN  IF ctx = {} THEN NoResponse
        ELSE IF (HasPhrase(t, "what", "time") \/ HasPhrase(t, "when", "is")) /\ timed # {}
             THEN Response(<<"Your", "appointment", "is scheduled for">>
                           \o mem[CHOOSE i \in timed : TRUE].metadata.date \o <<"at">>
                           \o mem[CHOOSE i \in timed : TRUE].metadata.time)
        ELSE IF (HasWord(t, "move") \/ HasWord(t, "reschedule")) /\ meeting.some
             THEN IF times # {}
                  THEN Response(<<"Moved">> \o meeting.event \o <<"to">>
                                \o <<CHOOSE x \in times : TRUE>>)
                  ELSE Response(<<"What time would you like to reschedule to?">>)
        ELSE IF HasWord(t, "cancel") /\ task.some
             THEN Response(<<"Cancelled">> \o task.event)
        ELSE NoResponse

\* How a part of run ends: it returns a response or raises, and leaves rows
PartReturned(text, mem) == [status |-> "returned", text |-> text, exc |-> "", memory |-> mem]
PartRaised(exc, mem) == [status |-> "raised", text |-> <<>>, exc |-> exc, memory |-> mem]

\* The response of a scheduled task, lines 135-140
ScheduledResponse(d) ==
    <<"Got it! I'll remember:">> \o d.title \o <<d.date, "at", d.time, "Duration:">>
        \o d.duration \o <<"minutes">>

\* A _process_new_task that answers a scheduled task without saving a row
ProcessNewTaskUnsaved(text, sid, mem, expl, dt, saveOk) ==
    IF ~NeedsScheduling(text)
    THEN PartReturned(<<"This doesn't seem like a scheduling request. How can I help?">>,
                      mem)
    ELSE LET d == ExtractScheduleWithPreferences(text, ExtractEntities(text), expl, dt)
         IN  CASE d.kind = "raise" -> PartRaised(d.exc, mem)
               [] d.kind = "invalid" -> PartReturned(d.error, mem)
               [] OTHER -> PartReturned(ScheduledResponse(d), mem)

\* MemoryEnabledScheduler._process_new_task; saveOk tells whether the INSERT
\* of the store succeeds
ProcessNewTask(text, sid, mem, expl, dt, saveOk) ==
    IF ~NeedsScheduling(text)
    THEN PartReturned(<<"This doesn't seem like a scheduling request. How can I help?">>, mem)
    ELSE LET d == ExtractScheduleWithPreferences(text, ExtractEntities(text), expl, dt)
         IN  CASE d.kind = "raise" -> PartRaised(d.exc, mem)
               [] d.kind = "invalid" -> PartReturned(d.error, mem)
               [] OTHER ->
                    IF ~saveOk THEN PartRaised("OperationalError", mem)
                    ELSE PartReturned(ScheduledResponse(d),
                                  Save(mem, Row(sid, text,
                                                <<"Scheduled:">> \o d.title
                                                    \o <<"on", d.date, "at", d.time>>,
                                                "memory_scheduler", ScheduleMetadata(d))))

\* MemoryEnabledScheduler.run: what it returns or raises, the rows and the
\* explicit preferences it leaves; okSaves is the number of INSERTs of this
\* call that succeed before one fails
Run(text, sid, mem, expl, ctx, dt, okSaves) ==
    LET pref == ExtractPreferenceFromText(text)
        resolved == IF HasReference(text) THEN HandleReference(text, mem, ctx)
                    ELSE NoResponse
        first == IF resolved.some THEN PartReturned(resolved.text, mem)
                 ELSE ProcessNewTask(text, sid, mem, expl, dt, okSaves >= 1)
        written == Len(first.memory) - Len(mem)
    IN  IF pref.some
        THEN [out |-> PartReturned(<<"Got it! I'll remember that you">> \o LowerText(text), mem),
              explicit |-> SaveExplicitPreference(expl, pref.category, pref.key, pref.value)]
        ELSE IF first.status = "raised" THEN [out |-> first, explicit |-> expl]
        ELSE IF okSaves <= written
             THEN [out |-> PartRaised("OperationalError", first.memory), explicit |-> expl]
             ELSE [out |-> PartReturned(first.text,
                                    Save(first.memory,
                                         Row(sid, text, first.text, "memory_scheduler",
                                             ExtractMetadata(text, sid)))),
                   explicit |-> expl]

\* What get_relevant_context may return for a text: rows of the store, as the
\* full-text search of the database ranks them; it is called for a text with
\* a reference only
Contexts(text, mem) ==
    IF HasReference(text) /\ ~ExtractPreferenceFromText(text).some
    THEN {c \in SUBSET (1..Len(mem)) : Cardinality(c) <= MaxContext}
    ELSE {{}}

\* The inputs of run
UserInputs ==
    { <<"I", "like", "Friday">>,
      <<"never", "schedule", "a", "meeting", "in", "the", "morning">>,
      <<"I", "prefer", "tea">>,
      <<"Schedule", "team", "meeting", "tomorrow", "10:00">>,
      <<"Schedule", "meeting", "at", "10:00">>,
      <<"when", "is", "the", "meeting">>,
      <<"cancel", "it">>,
      <<"move", "it", "to", "3pm">>,
      <<"reschedule", "it">> }

SessionIds == {"s1", "s2"}

\* MemoryEnabledScheduler(model, registry): a fresh session and fresh
\* preferences over the rows that are in the table
NewScheduler ==
    /\ \E sid \in SessionIds : session_id' = sid
    /\ explicit' = NoPreferences
    /\ ran' = NoOutcome
    /\ UNCHANGED <<memory, runs>>

\* scheduler.run(user_input)
MemoryRun ==
    /\ session_id # "none" /\ runs < MaxRuns
    /\ \E text \in UserInputs, dt \in Datetimes, okSaves \in 0..2 :
        \E ctx \in Contexts(text, memory) :
        LET r == Run(text, session_id, memory, explicit, ctx, dt, okSaves)
        IN  /\ memory' = r.out.memory
            /\ explicit' = r.explicit
            /\ ran' = [status |-> r.out.status,
                       value |-> [input |-> text, text |-> r.out.text, exc |-> r.out.exc]]
    /\ runs' = runs + 1
    /\ UNCHANGED session_id

\* Another program saves a row of its own
ForeignSave ==
    /\ Cardinality({i \in 1..Len(memory) : memory[i].agent_type = "task_scheduler"})
          < MaxForeign
    /\ \E row \in ForeignRows : memory' = Save(memory, row)
    /\ UNCHANGED <<session_id, explicit, ran, runs>>

\* The tables a scheduler may find when it is constructed: an empty one, or
\* the rows an earlier session left when it scheduled a task
StoredBefore ==
    { <<>>,
      Run(<<"Schedule", "team", "meeting", "tomorrow", "10:00">>, "s0", <<>>, NoPreferences,
          {}, CHOOSE dt \in Datetimes : dt.some, 2).out.memory }

MemoryInit ==
    /\ PIdle /\ AIdle /\ RIdle /\ DIdle /\ tools = EmptyRegistry /\ Pending
    /\ request = NoRequest
    /\ parameters = <<>> /\ kwargsIn = <<>> /\ executed = <<>> /\ outcome = NoOutcome
    /\ max_retries = 0 /\ genArgs = <<>> /\ posts = <<>> /\ generated = NoOutcome
    /\ session_id \in SessionIds /\ memory \in StoredBefore /\ explicit = NoPreferences
    /\ ran = NoOutcome /\ runs = 0

MemoryFrame ==
    UNCHANGED <<dvars, pvars, rvars, avars, cvars, tvars, request, parameters, kwargsIn,
                executed, outcome, max_retries, genArgs, posts, generated>>

MemoryNext ==
    \/ (NewScheduler /\ MemoryFrame)
    \/ (MemoryRun /\ MemoryFrame)
    \/ (ForeignSave /\ MemoryFrame)

SpecMemory == MemoryInit /\ [][MemoryNext]_vars

-----------------------------------------------------------------------------
(* Properties of the records a scheduler run writes.                        *)

\* The rows a step added at the end of the table
NewRows == SubSeq(memory', Len(memory) + 1, Len(memory'))

\* The step is a call of run that returned a scheduled task
ScheduledStep ==
    /\ ran'.status = "returned"
    /\ ran'.value.text # <<>> /\ ran'.value.text[1] = "Got it! I'll remember:"

\* C39: a call of MemoryEnabledScheduler.run whose input is recognised as a
\* preference statement updates the explicit preferences and returns without
\* writing any conversation record; every other call that returns writes at
\* least one conversation record carrying the run's session_id, and a call
\* that successfully schedules a new task writes two records, one inside
\* _process_new_task and one at the end of run.
C39_RecordsWrittenByRun ==
    [][ runs' = runs + 1 =>
          LET text == ran'.value.input
              pref == ExtractPreferenceFromText(text)
          IN  /\ SubSeq(memory', 1, Len(memory)) = memory
              /\ pref.some =>
                    /\ ran'.status = "returned"
                    /\ memory' = memory
                    /\ DOMAIN explicit' = DOMAIN explicit \cup {<<pref.category, pref.key>>}
                    /\ explicit'[<<pref.category, pref.key>>] = pref.value
                    /\ \A p \in DOMAIN explicit \ {<<pref.category, pref.key>>} :
                            explicit'[p] = explicit[p]
              /\ (~pref.some /\ ran'.status = "returned") =>
                    /\ Len(NewRows) >= 1
                    /\ \A i \in 1..Len(NewRows) :
                            /\ NewRows[i].session_id = session_id
                            /\ NewRows[i].user_message = text
                    /\ NewRows[Len(NewRows)].agent_response = ran'.value.text
                    /\ explicit' = explicit
              /\ ScheduledStep =>
                    /\ Len(NewRows) = 2
                    /\ NewRows[1].agent_response[1] = "Scheduled:"
                    /\ "time" \in DOMAIN NewRows[1].metadata
                    /\ "session" \in DOMAIN NewRows[2].metadata
      ]_vars

\* C39 witness: a run on an empty table scheduled a task and left two rows of
\* its session
C39_Witness ==
    /\ runs = 1 /\ ran.status = "returned"
    /\ ran.value.text[1] = "Got it! I'll remember:"
    /\ Len(memory) = 2
    /\ memory[1].session_id = session_id /\ memory[2].session_id = session_id
    /\ memory[1].agent_response[1] = "Scheduled:"
    /\ memory[2].agent_response = ran.value.text

\* C39 second witness: a preference statement that also names a meeting was
\* stored as a preference and no row was written
C39_WitnessPreference ==
    /\ runs = 1 /\ ran.status = "returned"
    /\ ran.value.input = <<"never", "schedule", "a", "meeting", "in", "the", "morning">>
    /\ explicit = SaveExplicitPreference(NoPreferences, "scheduling", "meeting_time_rule",
                                         <<"never_morning">>)
    /\ memory = <<>>

\* C39 third witness: a question about the meeting was answered from a row of
\* an earlier session and one row of this session was written
C39_WitnessReference ==
    /\ runs = 1 /\ ran.status = "returned"
    /\ ran.value.text[1] = "Your"
    /\ Len(memory) = 3
    /\ memory[1].session_id = "s0" /\ memory[3].session_id = session_id

\* C39 fourth witness: a run raised after _process_new_task had written its
\* row
C39_WitnessRaised ==
    /\ runs = 1 /\ ran.status = "raised"
    /\ Len(memory) = 1 /\ memory[1].agent_response[1] = "Scheduled:"

====
